---- MODULE Spec2Model ----
\* Verification model of the database exporter of imessage-exporter:
\*   - the export pipeline  (imessage-exporter/src/exporters/db.rs, DB)
\*   - the socket sink and its example peer (lib_db socket.rs, examples/socket.rs)
\*   - the embedded SurrealDB sink (lib_db surreal.rs)
EXTENDS Integers, Sequences, FiniteSets, TLC

VARIABLES
    \* ---- export pipeline (struct DB, iter_messages) ----
    pc,         \* position of iter_messages
    pos,        \* number of rows taken from the message stream so far
    messages,   \* DB.messages: buffer of records waiting for a batch insert
    calls,      \* calls made on DB.database, in call order
    error,      \* the error iter_messages returned, "none" while it has not
    \* ---- socket sink (SocketDatabase) and its peer (run_server) ----
    cpc,        \* position of the client: "idle" or "insert_wait" (read_exact)
    cur,        \* number of the insert_batch call waiting for its reply
    ncmd,       \* commands written by the client so far
    c2s,        \* bytes written by the client and not yet read by the peer
    s2c,        \* reply bytes written by the peer and not yet read by the client
    frames,     \* insert frames written by the client, by command number
    returns,    \* results returned by the client's calls, by command number
    answers,    \* reply byte the peer wrote for each command, by command number
    received,   \* ServerState.messages: command numbers of the batches stored
    \* ---- embedded sink (SurrealDatabase and the store behind DB) ----
    stored,     \* table messages, in key order
    persons,    \* table persons
    threads,    \* table threads
    sent,       \* edge table sent (person -> message)
    messaged_in,\* edge table messaged_in (person -> thread)
    in_thread,  \* edge table in_thread (message -> thread)
    last,       \* the last call made on the sink and its result
    nruns,      \* create_graph calls made so far
    runsOnSet,  \* committed create_graph runs since table messages last changed
    schema,     \* the definitions (tables, fields, indexes) of the database
    \* ---- the record key computed by write_message ----
    wm,         \* a message's key inputs and, once computed, its unique_chat_id
    \* ---- callers of insert_batch and the worker threads they spawn ----
    caller,     \* each caller: position, records buffered, result of its last call
    worker,     \* each caller's worker thread: position, batch size, result
    http,       \* the requests of the HTTP caller's current call and the response
    \* ---- construction of the HTTP sink (HttpDatabase::create) ----
    hc,         \* the environment of create and, once it ran, its base_url
    \* ---- rendering (Writer::format_message) ----
    rm,         \* a message, the indent it is rendered at and, once rendered, the text
    \* ---- app balloons (DB::format_app) ----
    am          \* an App message, the indent and, once formatted, the result

pipeVars == <<pc, pos, messages, calls, error>>

sockVars == <<cpc, cur, ncmd, c2s, s2c, frames, returns, answers, received>>

storeVars ==
    <<stored, persons, threads, sent, messaged_in, in_thread, last, nruns, runsOnSet,
      schema>>

keyVars == <<wm>>

workVars == <<caller, worker, http>>

endpointVars == <<hc>>

renderVars == <<rm>>

appVars == <<am>>

vars ==
    <<pipeVars, sockVars, storeVars, keyVars, workVars, endpointVars, renderVars,
      appVars>>

\* what the actions of one component leave alone
notPipe ==
    <<sockVars, storeVars, keyVars, workVars, endpointVars, renderVars, appVars>>

notSock ==
    <<pipeVars, storeVars, keyVars, workVars, endpointVars, renderVars, appVars>>

notStore ==
    <<pipeVars, sockVars, keyVars, workVars, endpointVars, renderVars, appVars>>

notKey ==
    <<pipeVars, sockVars, storeVars, workVars, endpointVars, renderVars, appVars>>

\* (the workers of the embedded sink write table messages of the store)
notWork ==
    <<pipeVars, sockVars, keyVars, endpointVars, renderVars, appVars>>

notEndpoint ==
    <<pipeVars, sockVars, storeVars, keyVars, workVars, renderVars, appVars>>

notRender ==
    <<pipeVars, sockVars, storeVars, keyVars, workVars, endpointVars, appVars>>

notApp ==
    <<pipeVars, sockVars, storeVars, keyVars, workVars, endpointVars, renderVars>>

-----------------------------------------------------------------------------
\* Bounds

\* longest message stream explored
MaxMessages == 1500

\* number of calls (insert_batch, flush) made on one socket connection
MaxCalls == 3

\* reply bytes the peer may leave unread while it answers stray bytes
MaxUnread == 3

\* records in one insert_batch call on the embedded sink
MaxBatch == 2

\* records table messages may hold
MaxStored == 3

\* create_graph calls made on the embedded sink
MaxRuns == 2

\* threads that call insert_batch on the shared embedded sink
MaxCallers == 2

\* parts of a rendered message
MaxParts == 2

\* tapbacks on one part of a rendered message
MaxTapbacks == 2

-----------------------------------------------------------------------------
\* Socket sink and its peer
\*
\* Byte counts are usize values, kept as 8 base-256 digits, least significant
\* first, so that the cast to u32 and the big-endian length field are exact.

CMD_INSERT == 73    \* b'I'
CMD_FLUSH == 70     \* b'F'
REPLY_OK == 75      \* b'K'
REPLY_ERR == 69     \* b'E'

Zero == <<0, 0, 0, 0, 0, 0, 0, 0>>

\* byte counts of serde_json::to_vec(&messages) explored:
\* 2 ("[]"), 8192, 2^32 - 1, 2^32 + 2
PayloadSizes ==
    { <<2, 0, 0, 0, 0, 0, 0, 0>>,
      <<0, 32, 0, 0, 0, 0, 0, 0>>,
      <<255, 255, 255, 255, 0, 0, 0, 0>>,
      <<2, 0, 0, 0, 1, 0, 0, 0>> }

\* data.len() as u32: the low 32 bits
AsU32(n) == SubSeq(n, 1, 4)

\* write_u32: the four bytes of a u32, most significant first
BE32(u) == <<u[4], u[3], u[2], u[1]>>

\* u32::from_be_bytes(len_buf) as usize
FromBE(b) == <<b[4], b[3], b[2], b[1], 0, 0, 0, 0>>

\* a <= b on byte counts
RECURSIVE LessEq(_, _)
LessEq(a, b) ==
    IF a = <<>> THEN TRUE
    ELSE LET n == Len(a) IN
         IF a[n] # b[n] THEN a[n] < b[n]
         ELSE LessEq(SubSeq(a, 1, n - 1), SubSeq(b, 1, n - 1))

\* a - b on byte counts (b <= a), digit by digit with borrow
RECURSIVE Minus(_, _, _)
Minus(a, b, borrow) ==
    IF a = <<>> THEN <<>>
    ELSE LET d == Head(a) - Head(b) - borrow IN
         IF d < 0 THEN <<d + 256>> \o Minus(Tail(a), Tail(b), 1)
         ELSE <<d>> \o Minus(Tail(a), Tail(b), 0)

\* what travels on the stream: single bytes, and runs of payload bytes whose
\* values are not modelled (only their count is)
Byte(b) == [k |-> "byte", v |-> b, of |-> 0]

Bytes(n, id) == [k |-> "bytes", v |-> n, of |-> id]

IsByte(e, b) == e.k = "byte" /\ e.v = b

\* the frame insert_batch writes: write_u8(CMD_INSERT), write_u32(len), write_all(data)
InsertFrame(size, id) ==
    LET len == BE32(AsU32(size)) IN
    << Byte(CMD_INSERT), Byte(len[1]), Byte(len[2]), Byte(len[3]), Byte(len[4]),
       Bytes(size, id) >>

\* if response[0] != b'K' { return Err("Server error") }
ReplyIsOk(byte) == byte = REPLY_OK

Reply(byte, id) == [byte |-> byte, re |-> id]

SockInit ==
    /\ cpc = "idle"
    /\ cur = 0
    /\ ncmd = 0
    /\ c2s = <<>>
    /\ s2c = <<>>
    /\ frames = <<>>
    /\ returns = <<>>
    /\ answers = <<>>
    /\ received = <<>>

\* SocketDatabase::insert_batch up to read_exact: the frame is written
InsertSend ==
    /\ cpc = "idle"
    /\ ncmd < MaxCalls
    /\ \E size \in PayloadSizes :
        /\ c2s' = c2s \o InsertFrame(size, ncmd + 1)
        /\ frames' = Append(frames, [id |-> ncmd + 1, size |-> size,
                                     written |-> InsertFrame(size, ncmd + 1)])
    /\ ncmd' = ncmd + 1
    /\ cur' = ncmd + 1
    /\ cpc' = "insert_wait"
    /\ returns' = Append(returns, [op |-> "pending", ok |-> FALSE, re |-> 0])
    /\ answers' = Append(answers, 0)
    /\ UNCHANGED <<s2c, received>>
    /\ UNCHANGED notSock

\* SocketDatabase::insert_batch from read_exact on: one reply byte is read
InsertRecv ==
    /\ cpc = "insert_wait"
    /\ s2c # <<>>
    /\ returns' = [returns EXCEPT ![cur] =
                      [op |-> "insert_batch", ok |-> ReplyIsOk(Head(s2c).byte),
                       re |-> Head(s2c).re]]
    /\ s2c' = Tail(s2c)
    /\ cpc' = "idle"
    /\ cur' = 0
    /\ UNCHANGED <<ncmd, c2s, frames, answers, received>>
    /\ UNCHANGED notSock

\* SocketDatabase::flush: the command byte is written, nothing is read
SocketFlush ==
    /\ cpc = "idle"
    /\ ncmd < MaxCalls
    /\ c2s' = Append(c2s, [k |-> "byte", v |-> CMD_FLUSH, of |-> ncmd + 1])
    /\ ncmd' = ncmd + 1
    /\ returns' = Append(returns, [op |-> "flush", ok |-> TRUE, re |-> 0])
    /\ answers' = Append(answers, 0)
    /\ UNCHANGED <<cpc, cur, s2c, frames, received>>
    /\ UNCHANGED notSock

\* run_server, command b'I': length prefix, payload, parse, reply
ServerInsert ==
    /\ Len(c2s) >= 6
    /\ IsByte(c2s[1], CMD_INSERT)
    /\ \A i \in 2..5 : c2s[i].k = "byte"
    /\ c2s[6].k = "bytes"
    /\ LET len == FromBE(<<c2s[2].v, c2s[3].v, c2s[4].v, c2s[5].v>>)
           id == c2s[6].of
           left == Minus(c2s[6].v, len, 0)
           rest == SubSeq(c2s, 7, Len(c2s))
       IN
       /\ LessEq(len, c2s[6].v)
       /\ c2s' = IF left = Zero THEN rest ELSE <<Bytes(left, 0)>> \o rest
       /\ \E parseOk \in BOOLEAN :
            \* a payload cut short is not a JSON array
            /\ (left # Zero) => ~parseOk
            /\ received' = IF parseOk THEN Append(received, id) ELSE received
            /\ s2c' = Append(s2c, Reply(IF parseOk THEN REPLY_OK ELSE REPLY_ERR, id))
            /\ answers' = [answers EXCEPT ![id] = IF parseOk THEN REPLY_OK ELSE REPLY_ERR]
    /\ UNCHANGED <<cpc, cur, ncmd, frames, returns>>
    /\ UNCHANGED notSock

\* run_server, command b'F'
ServerFlush ==
    /\ c2s # <<>>
    /\ IsByte(c2s[1], CMD_FLUSH)
    /\ c2s' = Tail(c2s)
    /\ s2c' = Append(s2c, Reply(REPLY_OK, c2s[1].of))
    /\ answers' = [answers EXCEPT ![c2s[1].of] = REPLY_OK]
    /\ UNCHANGED <<cpc, cur, ncmd, frames, returns, received>>
    /\ UNCHANGED notSock

\* run_server reading payload bytes left over by a short length prefix as
\* commands: the byte values are data, so each such command is answered
\* b'K' (it read as b'F') or b'E' (any other byte), and the leftover run
\* either goes on or ends
ServerStray ==
    /\ c2s # <<>>
    /\ c2s[1].k = "bytes"
    /\ Len(s2c) < MaxUnread
    /\ \E byte \in {REPLY_OK, REPLY_ERR} : s2c' = Append(s2c, Reply(byte, 0))
    /\ \E more \in BOOLEAN : c2s' = IF more THEN c2s ELSE Tail(c2s)
    /\ UNCHANGED <<cpc, cur, ncmd, frames, returns, answers, received>>
    /\ UNCHANGED notSock

SockNext ==
    \/ InsertSend
    \/ InsertRecv
    \/ SocketFlush
    \/ ServerInsert
    \/ ServerFlush
    \/ ServerStray

-----------------------------------------------------------------------------
\* Embedded sink
\*
\* A record of table messages keeps the fields the graph script reads. A row
\* of persons, threads or messages is named by its position in its table.

PhoneNumbers == {"Me", "+15550001"}

ChatIds == {"1", "2"}

\* the name Config::who gives the sender of a message sent by the owner
ME == "Me"

\* write_message sets phone_number to who(handle_id, is_from_me, ..): the
\* owner's name exactly when is_from_me
Records ==
    { [phone_number |-> p, is_from_me |-> (p = ME), unique_chat_id |-> c] :
        p \in PhoneNumbers, c \in ChatIds }

Batches == UNION {[1..n -> Records] : n \in 0..MaxBatch}

\* the DEFINE statements of setup_db, in script order
SchemaStatements ==
    << [kind |-> "TABLE", name |-> "persons", on |-> "", body |-> "SCHEMALESS"],
       [kind |-> "TABLE", name |-> "threads", on |-> "", body |-> "SCHEMALESS"],
       [kind |-> "TABLE", name |-> "messages", on |-> "", body |-> "SCHEMALESS"],
       [kind |-> "TABLE", name |-> "messaged_in", on |-> "", body |-> "SCHEMALESS"],
       [kind |-> "TABLE", name |-> "sent", on |-> "", body |-> "SCHEMALESS"],
       [kind |-> "TABLE", name |-> "in_thread", on |-> "", body |-> "SCHEMALESS"],
       [kind |-> "FIELD", name |-> "phone_number", on |-> "persons",
        body |-> "TYPE string ASSERT $value != NONE AND $value != ''"],
       [kind |-> "INDEX", name |-> "person_phone", on |-> "persons",
        body |-> "FIELDS phone_number UNIQUE"],
       [kind |-> "FIELD", name |-> "unique_chat_id", on |-> "threads",
        body |-> "TYPE string ASSERT $value != NONE AND $value != ''"],
       [kind |-> "INDEX", name |-> "thread_chat_id", on |-> "threads",
        body |-> "FIELDS unique_chat_id UNIQUE"] >>

\* the definition a DEFINE statement names
SameKey(d, st) == d.kind = st.kind /\ d.name = st.name /\ d.on = st.on

\* one DEFINE statement run by the engine. A definition of that name may
\* exist already: an engine that overwrites replaces it by the statement's,
\* an engine that does not fails the statement and keeps what it has.
Define(sch, st, overwrite) ==
    IF (\E d \in sch : SameKey(d, st)) /\ ~overwrite
    THEN [ok |-> FALSE, schema |-> sch]
    ELSE [ok |-> TRUE, schema |-> {d \in sch : ~SameKey(d, st)} \cup {st}]

\* the statements from the i-th on, run one after the other (no transaction:
\* a failed statement does not stop the ones after it)
RECURSIVE RunStatements(_, _, _, _)
RunStatements(sch, i, overwrite, allOk) ==
    IF i > Len(SchemaStatements)
    THEN [ok |-> allOk, schema |-> sch]
    ELSE LET r == Define(sch, SchemaStatements[i], overwrite)
         IN RunStatements(r.schema, i + 1, overwrite, allOk /\ r.ok)

QueryResult_Check(rtOk, stmtsOk) == rtOk /\ stmtsOk

\* DB.query(..).await?: the error of a statement stays in the Response, which
\* setup_db drops; only a failure to run the query at all is returned
QueryResult(rtOk, stmtsOk) == rtOk

StoreInit ==
    /\ schema = RunStatements({}, 1, TRUE, TRUE).schema
    /\ stored = <<>>
    /\ persons = <<>>
    /\ threads = <<>>
    /\ sent = <<>>
    /\ messaged_in = <<>>
    /\ in_thread = <<>>
    /\ last = [op |-> "create", ok |-> TRUE, n |-> 0, before |-> 0, at |-> 0]
    /\ nruns = 0
    /\ runsOnSet = 0

\* for message in messages { DB.create("messages").content(message).await? }:
\* the records created before the create that fails (failAt = 0: none fails)
CreatedBy(batch, failAt) ==
    IF failAt = 0 THEN batch ELSE SubSeq(batch, 1, failAt - 1)

\* SurrealDatabase::insert_batch: the worker thread is joined before it returns
insert_batch ==
    /\ \E batch \in Batches, rtOk \in BOOLEAN :
        \E failAt \in 0..Len(batch) :
            LET created == IF rtOk THEN CreatedBy(batch, failAt) ELSE <<>>
                ok == rtOk /\ failAt = 0
            IN
            /\ Len(stored) + Len(batch) <= MaxStored
            /\ stored' = stored \o created
            /\ last' = [op |-> "insert_batch", ok |-> ok, n |-> Len(batch),
                        before |-> Len(stored), at |-> failAt]
            /\ runsOnSet' = IF created = <<>> THEN runsOnSet ELSE 0
    /\ UNCHANGED <<persons, threads, sent, messaged_in, in_thread, nruns>>
    /\ UNCHANGED schema
    /\ UNCHANGED notStore

SelectPerson_First(ps, msg) == IF ps # <<>> THEN 1 ELSE 0

\* SELECT * FROM persons WHERE phone_number = $msg.phone_number LIMIT 1, [0]:
\* the row found, 0 for NONE
SelectPerson(ps, msg) ==
    IF \E i \in 1..Len(ps) : ps[i].phone_number = msg.phone_number
    THEN CHOOSE i \in 1..Len(ps) :
            /\ ps[i].phone_number = msg.phone_number
            /\ \A j \in 1..(i - 1) : ps[j].phone_number # msg.phone_number
    ELSE 0

\* SELECT * FROM threads WHERE unique_chat_id = $msg.unique_chat_id LIMIT 1, [0]
SelectThread(ts, msg) ==
    IF \E i \in 1..Len(ts) : ts[i].unique_chat_id = msg.unique_chat_id
    THEN CHOOSE i \in 1..Len(ts) :
            /\ ts[i].unique_chat_id = msg.unique_chat_id
            /\ \A j \in 1..(i - 1) : ts[j].unique_chat_id # msg.unique_chat_id
    ELSE 0

\* CREATE persons CONTENT {..} under the field assertion and the unique index
\* person_phone that setup_db defines
CreatePerson(ps, msg) ==
    IF \/ msg.phone_number = ""
       \/ \E i \in 1..Len(ps) : ps[i].phone_number = msg.phone_number
    THEN [ok |-> FALSE, rows |-> ps]
    ELSE [ok |-> TRUE,
          rows |-> Append(ps, [phone_number |-> msg.phone_number,
                               is_me |-> msg.is_from_me])]

\* CREATE threads CONTENT {..} under the field assertion and the unique index
\* thread_chat_id
CreateThread(ts, msg) ==
    IF \/ msg.unique_chat_id = ""
       \/ \E i \in 1..Len(ts) : ts[i].unique_chat_id = msg.unique_chat_id
    THEN [ok |-> FALSE, rows |-> ts]
    ELSE [ok |-> TRUE, rows |-> Append(ts, [unique_chat_id |-> msg.unique_chat_id])]

\* LET $person = (SELECT ..)[0] ?? (CREATE ..)
PersonOf(ps, msg) ==
    LET i == SelectPerson(ps, msg) IN
    IF i # 0 THEN [ok |-> TRUE, rows |-> ps, at |-> i]
    ELSE LET c == CreatePerson(ps, msg) IN
         [ok |-> c.ok, rows |-> c.rows, at |-> Len(c.rows)]

\* LET $thread = (SELECT ..)[0] ?? (CREATE ..)
ThreadOf(ts, msg) ==
    LET i == SelectThread(ts, msg) IN
    IF i # 0 THEN [ok |-> TRUE, rows |-> ts, at |-> i]
    ELSE LET c == CreateThread(ts, msg) IN
         [ok |-> c.ok, rows |-> c.rows, at |-> Len(c.rows)]

\* an edge is added unless the table holds it already
AddEdge(table, edge) ==
    IF \E i \in 1..Len(table) : table[i] = edge THEN table ELSE Append(table, edge)

ForMessage_CheckExisting(g, m, msg) ==
    LET p == PersonOf(g.persons, msg)
        t == ThreadOf(g.threads, msg)
    IN
    [ ok |-> g.ok /\ p.ok /\ t.ok,
      persons |-> p.rows,
      threads |-> t.rows,
      messaged_in |-> AddEdge(g.messaged_in, [from |-> p.at, to |-> t.at]),
      sent |-> AddEdge(g.sent, [from |-> p.at, to |-> m]),
      in_thread |-> AddEdge(g.in_thread, [from |-> m, to |-> t.at]) ]

\* one iteration of FOR $msg IN $messages, on the transaction's view g of
\* the tables; m is the row of $msg
ForMessage(g, m, msg) ==
    LET p == PersonOf(g.persons, msg)
        t == ThreadOf(g.threads, msg)
    IN
    [ ok |-> g.ok /\ p.ok /\ t.ok,
      persons |-> p.rows,
      threads |-> t.rows,
      messaged_in |-> Append(g.messaged_in, [from |-> p.at, to |-> t.at]),
      sent |-> Append(g.sent, [from |-> p.at, to |-> m]),
      in_thread |-> Append(g.in_thread, [from |-> m, to |-> t.at]) ]

\* the FOR loop from row m on; the statement of row failAt fails in the
\* engine (failAt = 0: none does)
RECURSIVE ForMessages(_, _, _, _)
ForMessages(g, msgs, m, failAt) ==
    IF m > Len(msgs) THEN g
    ELSE IF m = failAt \/ ~g.ok THEN [g EXCEPT !.ok = FALSE]
    ELSE ForMessages(ForMessage(g, m, msgs[m]), msgs, m + 1, failAt)

Transaction_NoRollback(failAt) ==
    ForMessages([ok |-> TRUE, persons |-> persons, threads |-> threads,
                 messaged_in |-> messaged_in, sent |-> sent, in_thread |-> in_thread],
                stored, 1, failAt)

\* BEGIN TRANSACTION; .. COMMIT TRANSACTION: the tables after the script, the
\* tables as they were when a statement failed
Transaction(failAt) ==
    LET g0 == [ok |-> TRUE, persons |-> persons, threads |-> threads,
               messaged_in |-> messaged_in, sent |-> sent, in_thread |-> in_thread]
        g == ForMessages(g0, stored, 1, failAt)
    IN IF g.ok THEN g ELSE [g0 EXCEPT !.ok = FALSE]

\* SurrealDatabase::create_graph
create_graph ==
    /\ nruns < MaxRuns
    /\ nruns' = nruns + 1
    /\ \E rtOk \in BOOLEAN, failAt \in 0..Len(stored) :
        LET g == Transaction(failAt) IN
        IF rtOk
        THEN /\ persons' = g.persons
             /\ threads' = g.threads
             /\ messaged_in' = g.messaged_in
             /\ sent' = g.sent
             /\ in_thread' = g.in_thread
             /\ last' = [op |-> "create_graph", ok |-> g.ok, n |-> Len(stored),
                         before |-> Len(stored), at |-> failAt]
             /\ runsOnSet' = IF g.ok THEN runsOnSet + 1 ELSE runsOnSet
        ELSE /\ last' = [op |-> "create_graph", ok |-> FALSE, n |-> Len(stored),
                         before |-> Len(stored), at |-> 0]
             /\ UNCHANGED <<persons, threads, messaged_in, sent, in_thread, runsOnSet>>
    /\ UNCHANGED <<stored, schema>>
    /\ UNCHANGED notStore

\* SurrealDatabase::setup_db, called again on a store (create calls it each
\* time the store is opened). rtOk: the worker's runtime starts and the query
\* reaches the engine; overwrite: how the engine treats a definition that exists
setup_db ==
    /\ \E rtOk \in BOOLEAN, overwrite \in BOOLEAN :
        LET r == RunStatements(schema, 1, overwrite, TRUE) IN
        /\ schema' = IF rtOk THEN r.schema ELSE schema
        /\ last' = [op |-> "setup_db", ok |-> QueryResult(rtOk, r.ok),
                    n |-> Cardinality(schema'), before |-> Cardinality(schema),
                    at |-> IF rtOk THEN 0 ELSE 1]
    /\ UNCHANGED <<stored, persons, threads, sent, messaged_in, in_thread, nruns,
                   runsOnSet>>
    /\ UNCHANGED notStore

StoreNext ==
    \/ insert_batch
    \/ create_graph
    \/ setup_db

-----------------------------------------------------------------------------
\* Export pipeline

\* buffer length at which write_message flushes
FlushThreshold == 1000

\* the rowid of the row at position i of the stream (rows are streamed in
\* rowid order; the record built by write_message keeps the rowid)
Rowid(i) == i

Push_Prepend(buf, rec) == <<rec>> \o buf

\* self.messages.push(db_message)
Push(buf, rec) == Append(buf, rec)

BufferFull_Strict(buf) == Len(buf) > FlushThreshold

\* if self.messages.len() >= 1000
BufferFull(buf) == Len(buf) >= FlushThreshold

TakeRest_Keep(buf) == buf

\* std::mem::take(&mut self.messages): what is left in the buffer
TakeRest(buf) == <<>>

Try_Ignore(ok, next) == next

\* the ? operator on a Result: continue at next on Ok, return the error on Err
Try(ok, next) == IF ok THEN next ELSE "failed"

ErrorOf(ok, kind) == IF ok THEN "none" ELSE kind

InsertCall(batch, ok) == [op |-> "insert_batch", batch |-> batch, ok |-> ok]

GraphCall(ok) == [op |-> "create_graph", batch |-> <<>>, ok |-> ok]

PipeInit ==
    /\ pc = "start"
    /\ pos = 0
    /\ messages = <<>>
    /\ calls = <<>>
    /\ error = "none"

\* iter_messages up to the loop: get_count, stream_rows, query_map
OpenStream ==
    /\ pc = "start"
    /\ \E ok \in BOOLEAN :
        /\ pc' = Try(ok, "loop")
        /\ error' = ErrorOf(ok, "source")
    /\ UNCHANGED <<pos, messages, calls>>
    /\ UNCHANGED notPipe

\* write_message with flush_messages inlined; the next position of
\* iter_messages and the error it returns
write_message(rowid, renderOk, sinkOk) ==
    IF ~renderOk
    THEN \* format_message(message, 0).map_err(..)?
         /\ pc' = "failed"
         /\ error' = "render"
         /\ UNCHANGED <<messages, calls>>
    ELSE LET buf == Push(messages, rowid) IN
         IF BufferFull(buf)
         THEN \* flush_messages()?
              /\ messages' = TakeRest(buf)
              /\ calls' = Append(calls, InsertCall(buf, sinkOk))
              /\ pc' = Try(sinkOk, "loop")
              /\ error' = ErrorOf(sinkOk, "sink")
         ELSE /\ messages' = buf
              /\ pc' = "loop"
              /\ UNCHANGED <<calls, error>>

\* one iteration of the for loop of iter_messages
LoopIteration ==
    /\ pc = "loop"
    /\ pos < MaxMessages
    /\ pos' = pos + 1
    /\ \E extractOk, renderOk, sinkOk \in BOOLEAN :
        IF ~extractOk
        THEN \* Message::extract(message).map_err(..)?
             /\ pc' = "failed"
             /\ error' = "source"
             /\ UNCHANGED <<messages, calls>>
        ELSE write_message(Rowid(pos + 1), renderOk, sinkOk)
    /\ UNCHANGED notPipe

\* the message stream is exhausted: pb.finish()
StreamExhausted ==
    /\ pc = "loop"
    /\ pc' = "flush"
    /\ UNCHANGED <<pos, messages, calls, error>>
    /\ UNCHANGED notPipe

\* self.flush_messages()? after the loop
flush_messages ==
    /\ pc = "flush"
    /\ \E sinkOk \in BOOLEAN :
        /\ messages' = TakeRest(messages)
        /\ calls' = Append(calls, InsertCall(messages, sinkOk))
        /\ pc' = Try(sinkOk, "graph")
        /\ error' = ErrorOf(sinkOk, "sink")
    /\ UNCHANGED pos
    /\ UNCHANGED notPipe

\* db.create_graph().map_err(..)? and Ok(())
create_graph_step ==
    /\ pc = "graph"
    /\ \E ok \in BOOLEAN :
        /\ calls' = Append(calls, GraphCall(ok))
        /\ pc' = Try(ok, "done")
        /\ error' = ErrorOf(ok, "graph")
    /\ UNCHANGED <<pos, messages>>
    /\ UNCHANGED notPipe

Next ==
    \/ OpenStream
    \/ LoopIteration
    \/ StreamExhausted
    \/ flush_messages
    \/ create_graph_step

-----------------------------------------------------------------------------
\* The key of a record (write_message, unique_chat_id)
\*
\* Strings are sequences of characters; an Option is <<>> (None) or <<v>>.

\* chat row ids met in the explored messages
ChatRowIds == {-12, 0, 7, 120}

\* names Config::who may give a sender (the empty one for a handle without id)
Whos == { <<"M", "e">>, <<"+", "1", "5", "5", "5">>, <<"a", "@", "b">>, <<>> }

DigitChar(d) == <<"0", "1", "2", "3", "4", "5", "6", "7", "8", "9">>[d + 1]

RECURSIVE Digits(_)
Digits(n) ==
    IF n < 10 THEN <<DigitChar(n)>> ELSE Digits(n \div 10) \o <<DigitChar(n % 10)>>

\* i32::to_string
to_string(n) == IF n < 0 THEN <<"-">> \o Digits(0 - n) ELSE Digits(n)

DedupedChatId_Raw(conversation, chat_id) == chat_id

\* match self.config.conversation(message) { Some((_, id)) => Some(*id),
\*                                           None => message.chat_id }
DedupedChatId(conversation, chat_id) ==
    IF conversation # <<>> THEN conversation ELSE chat_id

MissingChatId ==
    <<":", "M", "i", "s", "s", "i", "n", "g", "_", "c", "h", "a", "t", "_", "i", "d">>

\* match deduped_chat_id { Some(id) => id.to_string(),
\*                         None => format!("{}:Missing_chat_id", phone_number) }
UniqueChatId(conversation, chat_id, who) ==
    LET deduped_chat_id == DedupedChatId(conversation, chat_id) IN
    IF deduped_chat_id # <<>>
    THEN to_string(deduped_chat_id[1])
    ELSE who \o MissingChatId

Options(S) == {<<>>} \cup {<<v>> : v \in S}

\* the messages write_message is given: what Config::conversation resolves
\* the message to, its chat_id column and the name Config::who gives its sender
KeyInputs ==
    [conversation : Options(ChatRowIds), chat_id : Options(ChatRowIds), who : Whos]

KeyOf(in) ==
    [conversation |-> in.conversation, chat_id |-> in.chat_id, who |-> in.who,
     done |-> FALSE, unique_chat_id |-> <<>>]

KeyIdle == wm = KeyOf([conversation |-> <<>>, chat_id |-> <<>>, who |-> <<>>])

KeyInit == \E in \in KeyInputs : wm = KeyOf(in)

\* write_message, lines 157-172: the unique_chat_id of the record it builds
write_message_key ==
    /\ ~wm.done
    /\ wm' = [wm EXCEPT !.done = TRUE,
                        !.unique_chat_id = UniqueChatId(wm.conversation, wm.chat_id, wm.who)]
    /\ UNCHANGED notKey

KeyNext == write_message_key

-----------------------------------------------------------------------------
\* insert_batch, step by step: the caller's thread and the worker it spawns
\*
\* Caller 0 is a pipeline whose sink is the HttpDatabase; callers 1.. are
\* threads that share one SurrealDatabase, and with it the static DB and table
\* messages (stored).

HTTP == 0

Callers == 0..MaxCallers

Embedded == 1..MaxCallers

\* the message caller t inserts (each thread inserts messages of its own)
get_test_message(t) ==
    [phone_number |-> IF t % 2 = 1 THEN ME ELSE "+15550001",
     is_from_me |-> (t % 2 = 1),
     unique_chat_id |-> IF (t \div 2) % 2 = 0 THEN "1" ELSE "2"]

\* Result<(), Box<dyn Error>>: Ok(()) or the error, with its text when the
\* code formats one
Ok == [ok |-> TRUE, kind |-> "", text |-> <<>>]

Err(kind, text) == [ok |-> FALSE, kind |-> kind, text |-> text]

\* accepted: the records of the batches insert_batch has returned Ok for
NoCaller ==
    [pc |-> "idle", buffered |-> 0, returned |-> FALSE, ret |-> Ok, accepted |-> 0]

NoWorker == [state |-> "none", n |-> 0, i |-> 0, result |-> Ok]

NoRequest == [posted |-> <<>>, status |-> 0, read |-> FALSE, body |-> <<>>]

WorkInit ==
    /\ caller = [t \in Callers |-> NoCaller]
    /\ worker = [t \in Callers |-> NoWorker]
    /\ http = NoRequest

\* records caller t still has to hand to the store
Pending(t) ==
    caller[t].buffered +
        (IF worker[t].state \in {"spawned", "running"}
         THEN worker[t].n - worker[t].i ELSE 0)

RECURSIVE SumPending(_)
SumPending(t) == IF t = 0 THEN 0 ELSE Pending(t) + SumPending(t - 1)

\* write_message: self.messages.push(db_message), on the caller's own thread
buffer_message(t) ==
    /\ caller[t].pc = "idle"
    /\ caller[t].buffered < MaxBatch
    /\ t \in Embedded => Len(stored) + SumPending(MaxCallers) < MaxStored
    /\ caller' = [caller EXCEPT ![t].buffered = @ + 1]
    /\ UNCHANGED <<worker, http>>
    /\ UNCHANGED <<storeVars, notWork>>

\* flush_messages: std::mem::take(&mut self.messages), then insert_batch up to
\* std::thread::spawn; the caller goes on to handle.join()
spawn_worker(t) ==
    /\ caller[t].pc = "idle"
    /\ caller' = [caller EXCEPT ![t].pc = "joining", ![t].buffered = 0,
                                ![t].returned = FALSE, ![t].ret = Ok]
    /\ worker' = [worker EXCEPT ![t] = [NoWorker EXCEPT !.state = "spawned",
                                                        !.n = caller[t].buffered]]
    /\ http' = IF t = HTTP THEN NoRequest ELSE http
    /\ UNCHANGED <<storeVars, notWork>>

\* for message in messages {..} Ok(()): the embedded sink's worker leaves the
\* loop with Ok(()) once it has created every message
LoopExit(w, t) ==
    IF t \in Embedded /\ w.i = w.n
    THEN [w EXCEPT !.state = "done", !.result = Ok]
    ELSE w

\* let rt = Runtime::new()?; (and an empty loop)
worker_runtime(t) ==
    /\ worker[t].state = "spawned"
    /\ \E rtOk \in BOOLEAN :
        worker' = [worker EXCEPT ![t] =
                    IF rtOk THEN LoopExit([@ EXCEPT !.state = "running"], t)
                    ELSE [@ EXCEPT !.state = "done", !.result = Err("runtime", <<>>)]]
    /\ UNCHANGED <<caller, http>>
    /\ UNCHANGED <<storeVars, notWork>>

Create_FixedKey(table, message) ==
    IF table = <<>> THEN <<message>> ELSE [table EXCEPT ![Len(table)] = message]

\* DB.create("messages").content(message): a row under a key of its own
Create(table, message) == Append(table, message)

\* one turn of for message in messages { DB.create(..).content(message).await? }
worker_create(t) ==
    /\ t \in Embedded
    /\ worker[t].state = "running"
    /\ worker[t].i < worker[t].n
    /\ \E createOk \in BOOLEAN :
        IF createOk
        THEN /\ stored' = Create(stored, get_test_message(t))
             /\ worker' = [worker EXCEPT ![t] = LoopExit([@ EXCEPT !.i = @ + 1], t)]
             /\ runsOnSet' = 0
        ELSE /\ worker' = [worker EXCEPT ![t].state = "done",
                                         ![t].result = Err("create", <<>>)]
             /\ UNCHANGED <<stored, runsOnSet>>
    /\ UNCHANGED <<caller, http>>
    /\ UNCHANGED <<persons, threads, sent, messaged_in, in_thread, last, nruns, schema>>
    /\ UNCHANGED notWork

\* statuses a server answers with, and the bodies of its answers
Statuses == {200, 299, 300, 404}

Bodies == { <<>>, <<"b", "a", "d">> }

\* StatusCode::is_success
is_success(status) == 200 <= status /\ status <= 299

\* StatusCode's Display: the code and its canonical reason
canonical_reason(status) ==
    CASE status = 200 -> <<"O", "K">>
      [] status = 300 -> <<"M", "u", "l", "t", "i", "p", "l", "e", " ",
                           "C", "h", "o", "i", "c", "e", "s">>
      [] status = 404 -> <<"N", "o", "t", " ", "F", "o", "u", "n", "d">>
      [] OTHER -> <<"<", "u", "n", "k", "n", "o", "w", "n", " ", "s", "t", "a", "t",
                    "u", "s", " ", "c", "o", "d", "e", ">">>

StatusDisplay(status) == to_string(status) \o <<" ">> \o canonical_reason(status)

HttpError_NoBody(status, error_text) ==
    Err("status", <<"H", "T", "T", "P", " ", "e", "r", "r", "o", "r", " ">>
                    \o StatusDisplay(status))

\* Err(format!("HTTP error {}: {}", status, error_text).into())
HttpError(status, error_text) ==
    Err("status", <<"H", "T", "T", "P", " ", "e", "r", "r", "o", "r", " ">>
                    \o StatusDisplay(status) \o <<":", " ">> \o error_text)

\* client.post(&url).json(&messages).send().await and what follows it: one
\* request with the whole of messages as its JSON body; sendOk: a response
\* arrives; textOk: the body of a response that is not a success can be read
worker_post(t) ==
    /\ t = HTTP
    /\ worker[t].state = "running"
    /\ \E sendOk \in BOOLEAN, status \in Statuses, body \in Bodies, textOk \in BOOLEAN :
        LET result ==
                IF ~sendOk THEN Err("send", <<>>)
                ELSE IF ~is_success(status)
                     THEN IF textOk THEN HttpError(status, body) ELSE Err("body", <<>>)
                     ELSE Ok
        IN
        /\ http' = [posted |-> Append(http.posted, worker[t].n),
                    status |-> IF sendOk THEN status ELSE 0,
                    read |-> sendOk /\ ~is_success(status) /\ textOk,
                    body |-> IF sendOk /\ ~is_success(status) /\ textOk
                             THEN body ELSE <<>>]
        /\ worker' = [worker EXCEPT ![t].state = "done", ![t].i = worker[t].n,
                                    ![t].result = result]
    /\ UNCHANGED caller
    /\ UNCHANGED <<storeVars, notWork>>

Joinable_Detached(w) == w.state # "none"

\* handle.join() returns once the worker's closure has returned
Joinable(w) == w.state = "done"

\* handle.join().unwrap(): the caller takes the worker's result and returns
\* it (the thread is gone); flush_messages and write_message return and the
\* loop goes on
join(t) ==
    /\ caller[t].pc = "joining"
    /\ Joinable(worker[t])
    /\ caller' = [caller EXCEPT ![t].pc = "idle", ![t].returned = TRUE,
                                ![t].ret = worker[t].result,
                                ![t].accepted =
                                    IF worker[t].result.ok /\ t \in Embedded
                                    THEN @ + worker[t].n ELSE @]
    /\ worker' = [worker EXCEPT ![t] = NoWorker]
    /\ UNCHANGED http
    /\ UNCHANGED <<storeVars, notWork>>

\* threads that call insert_batch on the shared embedded sink concurrently
WorkNext ==
    \E t \in Embedded :
        \/ buffer_message(t)
        \/ spawn_worker(t)
        \/ worker_runtime(t)
        \/ worker_create(t)
        \/ join(t)

\* one pipeline on the HTTP sink and one on the embedded sink
SyncNext ==
    \E t \in {HTTP, 1} :
        \/ buffer_message(t)
        \/ spawn_worker(t)
        \/ worker_runtime(t)
        \/ worker_create(t)
        \/ worker_post(t)
        \/ join(t)

-----------------------------------------------------------------------------
\* The endpoint of the HTTP sink (HttpDatabase::create)

DEFAULT_HTTP_ENDPOINT ==
    <<"h", "t", "t", "p", ":", "/", "/", "l", "o", "c", "a", "l", "h", "o", "s", "t",
      ":", "3", "0", "0", "0">>

\* the values of DBPATH explored: a scheme-like prefix, a separator and a rest
PathPrefixes ==
    { <<>>, <<"h", "t", "t", "p">>, <<"h", "t", "t", "p", "s">>,
      <<"H", "T", "T", "P">>, <<"H", "T", "T", "P", "S">>, <<"f", "t", "p">>,
      <<"x">>, <<"r", "e", "m", "o", "t", "e">> }

PathSeparators == { <<>>, <<":">>, <<":", "/">>, <<":", "/", "/">> }

PathRests == { <<>>, <<"h">>, <<"h", "/", "h", "t", "t", "p", ":", "/", "/", "p">> }

Paths == {p \o s \o r : p \in PathPrefixes, s \in PathSeparators, r \in PathRests}

\* u8::to_ascii_lowercase, on the letters of the explored paths
Lower(c) ==
    CASE c = "H" -> "h"
      [] c = "T" -> "t"
      [] c = "P" -> "p"
      [] c = "S" -> "s"
      [] OTHER -> c

\* the letters of the explored paths
Alpha ==
    {"h", "t", "p", "s", "H", "T", "P", "S", "f", "x", "r", "e", "m", "o", "l", "c", "a"}

\* position of the first c in string, 0 if there is none
IndexOf(string, c) ==
    IF \E i \in 1..Len(string) : string[i] = c
    THEN CHOOSE i \in 1..Len(string) :
            string[i] = c /\ \A j \in 1..(i - 1) : string[j] # c
    ELSE 0

RECURSIVE SkipSlashes(_)
SkipSlashes(string) ==
    IF string # <<>> /\ Head(string) = "/" THEN SkipSlashes(Tail(string)) ELSE string

\* schemes whose URLs must name a host
SpecialSchemes ==
    { <<"h", "t", "t", "p">>, <<"h", "t", "t", "p", "s">>, <<"f", "t", "p">> }

\* Url::parse without a base URL, and Url::scheme: the input must start with a
\* scheme (letters, up to the first ':'), which is lower-cased; after a special
\* scheme the slashes are optional and the host that follows must not be empty
Parse(input) ==
    LET colon == IndexOf(input, ":")
        prefix == SubSeq(input, 1, colon - 1)
        scheme == [i \in 1..Len(prefix) |-> Lower(prefix[i])]
        after == SkipSlashes(SubSeq(input, colon + 1, Len(input)))
        slash == IndexOf(after, "/")
        host == IF slash = 0 THEN after ELSE SubSeq(after, 1, slash - 1)
    IN
    IF colon <= 1 \/ \E i \in 1..Len(prefix) : prefix[i] \notin Alpha
    THEN [ok |-> FALSE, scheme |-> <<>>]
    ELSE IF scheme \in SpecialSchemes /\ (host = <<>> \/ Head(host) = ":")
         THEN [ok |-> FALSE, scheme |-> <<>>]
         ELSE [ok |-> TRUE, scheme |-> scheme]

\* str::starts_with
StartsWith(string, prefix) ==
    Len(prefix) <= Len(string) /\ SubSeq(string, 1, Len(prefix)) = prefix

\* str::replace: every non-overlapping match of from, left to right
RECURSIVE Replace(_, _, _)
Replace(string, from, to) ==
    IF string = <<>> THEN <<>>
    ELSE IF StartsWith(string, from)
         THEN to \o Replace(SubSeq(string, Len(from) + 1, Len(string)), from, to)
         ELSE <<Head(string)>> \o Replace(Tail(string), from, to)

HttpScheme == <<"h", "t", "t", "p">>

HttpsScheme == <<"h", "t", "t", "p", "s">>

\* lines 34-48: the base URL before TLS is looked at
BaseUrl(dbpath) ==
    IF dbpath # <<>>
    THEN LET path == dbpath[1]
             url == Parse(path)
         IN IF url.ok
            THEN IF url.scheme = HttpScheme \/ url.scheme = HttpsScheme
                 THEN path
                 ELSE DEFAULT_HTTP_ENDPOINT
            ELSE IF path = <<"r", "e", "m", "o", "t", "e">>
                 THEN DEFAULT_HTTP_ENDPOINT
                 ELSE DEFAULT_HTTP_ENDPOINT
    ELSE DEFAULT_HTTP_ENDPOINT

\* lines 51-58: "Force HTTPS when using TLS"
ForceHttps(tls, base_url) ==
    IF tls /\ ~StartsWith(base_url, HttpsScheme \o <<":", "/", "/">>)
    THEN Replace(base_url, HttpScheme \o <<":", "/", "/">>, HttpsScheme \o <<":", "/", "/">>)
    ELSE base_url

\* the environment of HttpDatabase::create: TLS_CERT set or not, whether the
\* certificate it names can be read and parsed, and DBPATH
Environments ==
    [tls : BOOLEAN, certOk : BOOLEAN, dbpath : Options(Paths)]

EndpointOf(env) ==
    [tls |-> env.tls, certOk |-> env.certOk, dbpath |-> env.dbpath,
     done |-> FALSE, ok |-> FALSE, base_url |-> <<>>]

EndpointIdle == hc = EndpointOf([tls |-> FALSE, certOk |-> TRUE, dbpath |-> <<>>])

EndpointInit == \E env \in Environments : hc = EndpointOf(env)

\* HttpDatabase::create
create ==
    /\ ~hc.done
    /\ hc' = IF hc.tls /\ ~hc.certOk
             THEN [hc EXCEPT !.done = TRUE]
             ELSE [hc EXCEPT !.done = TRUE, !.ok = TRUE,
                             !.base_url = ForceHttps(hc.tls, BaseUrl(hc.dbpath))]
    /\ UNCHANGED notEndpoint

EndpointNext == create

-----------------------------------------------------------------------------
\* Rendering a message (Writer::format_message and the formatters it calls)
\*
\* A String is a sequence of tokens: a token stands for a run of characters
\* without a line break (a date, a name, a text), NL for '\n' and SP for one
\* space of an indent. The empty String is <<>>.

NL == "\n"

SP == " "

\* String::from_iter((0..indent_size).map(|_| " "))
Indent(indent_size) == [i \in 1..indent_size |-> SP]

\* add_line: nothing for an empty part, else indent, part and a line break
add_line(string, part, indent) ==
    IF part # <<>> THEN string \o indent \o part \o <<NL>> ELSE string

\* format_attachment: Ok(the path of the copy) or Err(the file's name)
format_attachment(attachment) ==
    IF attachment.copied
    THEN [ok |-> TRUE, text |-> <<attachment.path>>]
    ELSE [ok |-> FALSE, text |-> <<attachment.filename>>]

\* format_sticker
format_sticker(sticker, who) ==
    LET path == format_attachment(sticker) IN
    IF path.ok /\ sticker.effect # <<>>
    THEN sticker.effect \o <<" Sticker from ", who, ": ">> \o path.text
    ELSE <<"Sticker from ", who, ": ">> \o path.text

\* what a render returns: a String, an error value, or no value at all when
\* the thread panics
Returned(text) == [kind |-> "Ok", text |-> text]

Failed(why) == [kind |-> "Err", text |-> <<why>>]

Panicked == [kind |-> "Panic", text |-> <<>>]

format_tapback_Removed(msg) ==
    Returned(<<msg.tapback, " by ", msg.who>>)

\* format_tapback: "" for a removed tapback; a sticker is looked up in the
\* attachments of the tapback message, and the lookup may fail
format_tapback(msg) ==
    CASE msg.variant = "Tapback" ->
            IF ~msg.added THEN Returned(<<>>)
            ELSE Returned(<<msg.tapback, " by ", msg.who>>)
      [] msg.variant = "Sticker" ->
            IF ~msg.attachments_ok THEN Failed("TableError")
            ELSE IF msg.attachments # <<>>
            THEN Returned(format_sticker(msg.attachments[1], msg.who)
                            \o <<" from ", msg.who>>)
            ELSE Returned(<<"Sticker from ", msg.who, " not found!">>)
      [] OTHER -> Panicked

\* the tapbacks of a part, from the i-th on (lines 450-462): a failure of
\* 'self.format_tapback(tapbacks)?' leaves the closure and try_for_each stops
RECURSIVE FormatTapbacks(_, _, _, _)
FormatTapbacks(tapbacks, i, formatted_tapbacks, indent) ==
    IF i > Len(tapbacks) THEN Returned(formatted_tapbacks)
    ELSE LET formatted == format_tapback(tapbacks[i])
             step == IF formatted.kind # "Ok" THEN formatted
                     ELSE IF formatted.text # <<>>
                     THEN Returned(add_line(formatted_tapbacks,
                                            format_tapback(tapbacks[i]).text, indent))
                     ELSE Returned(formatted_tapbacks)
         IN IF step.kind # "Ok" THEN step
            ELSE FormatTapbacks(tapbacks, i + 1, step.text, indent)

\* lines 446-469: the tapback block of a part
HandleTapbacks(formatted_message, tapbacks, indent) ==
    LET formatted_tapbacks == FormatTapbacks(tapbacks, 1, <<>>, indent) IN
    IF formatted_tapbacks.kind # "Ok" THEN formatted_tapbacks
    ELSE IF formatted_tapbacks.text # <<>>
    THEN Returned(add_line(add_line(formatted_message, <<"Tapbacks:">>, indent),
                           formatted_tapbacks.text, indent))
    ELSE Returned(formatted_message)

\* format(&get_local_time(&event.date, ..)): the display text of a time, here a
\* number of minutes after 5:29 PM
format(date) ==
    CASE date = 0 -> "May 17, 2022  5:29:42 PM"
      [] date = 2 -> "May 17, 2022  5:31:42 PM"
      [] date = 3 -> "May 17, 2022  5:32:42 PM"
      [] date = 5 -> "May 17, 2022  5:34:42 PM"
      [] OTHER -> "May 17, 2022  6:00:00 PM"

\* the words of a length of time: none for less than a second
Minutes(n) ==
    CASE n = 0 -> ""
      [] n = 1 -> "1 minute"
      [] n = 2 -> "2 minutes"
      [] n = 3 -> "3 minutes"
      [] n = 5 -> "5 minutes"
      [] OTHER -> "some minutes"

\* readable_diff(start, end): None (<<>>) when end is before start, else
\* Some(the time from start to end)
readable_diff(start, end) ==
    IF end < start THEN <<>> ELSE <<Minutes(end - start)>>

\* previous_timestamp = Some(&event.date)
UpdatePrevious(previous_timestamp, event) == <<event.date>>

\* format_edited, EditStatus::Edited: the first event with its timestamp,
\* the later ones with the time since previous_timestamp (when it is readable);
\* previous_timestamp is <<>> for None
RECURSIVE FormatEvents(_, _, _, _, _)
FormatEvents(edit_history, i, previous_timestamp, out_s, indent) ==
    IF i > Len(edit_history) THEN out_s
    ELSE LET event == edit_history[i]
             stamped ==
                IF previous_timestamp = <<>>
                THEN out_s \o <<format(event.date), SP>>
                ELSE LET diff == readable_diff(previous_timestamp[1], event.date)
                     IN IF diff # <<>>
                        THEN out_s \o indent \o <<"Edited ", diff[1], " later: ">>
                        ELSE out_s
         IN FormatEvents(edit_history, i + 1, UpdatePrevious(previous_timestamp, event),
                         add_line(stamped, <<event.text>>, indent), indent)

\* format_edited: <<>> for None, <<string>> for Some(string)
format_edited(part, indent) ==
    CASE part.status = "Edited" ->
            << FormatEvents(part.edit_history, 1, <<>>, <<>>, indent) >>
      [] part.status = "Unsent" -> << <<"They", " unsent this message part!">> >>
      [] OTHER -> <<>>

\* out_s.strip_suffix('\n').unwrap_or(&out_s)
strip_suffix(out_s) ==
    IF out_s # <<>> /\ out_s[Len(out_s)] = NL
    THEN SubSeq(out_s, 1, Len(out_s) - 1) ELSE out_s

\* a chain of 'if let Some(x) = balloon.field { add_line(out_s, x, indent) }',
\* in the order of the source; an absent field is <<>>
RECURSIVE AddFields(_, _, _, _)
AddFields(out_s, balloon, fields, indent) ==
    IF fields = <<>> THEN out_s
    ELSE AddFields(add_line(out_s, balloon[Head(fields)], indent), balloon,
                   Tail(fields), indent)

\* format_url: the url or else the text of the message, title, summary; the
\* last line break is removed
format_url(msg, balloon, indent) ==
    LET first == IF balloon.url # <<>> THEN add_line(<<>>, balloon.url, indent)
                 ELSE IF msg.text # <<>> THEN add_line(<<>>, msg.text, indent)
                 ELSE <<>>
    IN strip_suffix(AddFields(first, balloon, <<"title", "summary">>, indent))

\* format_music: track name, album, artist, url; the last line break stays
format_music(balloon, indent) ==
    AddFields(<<>>, balloon, <<"track_name", "album", "artist", "url">>, indent)

\* the header of a collaboration or app balloon: out_s starts as the indent
\* and gets " message:\n" unless it is empty
Header(name, indent) ==
    LET out_s == indent \o name
    IN IF out_s # <<>> THEN out_s \o <<" message:", NL>> ELSE out_s

\* format_collaboration
format_collaboration(balloon, indent) ==
    LET name == IF balloon.app_name # <<>> THEN balloon.app_name ELSE balloon.bundle_id
    IN strip_suffix(AddFields(Header(name, indent), balloon, <<"title", "url">>, indent))

\* format_app_store
format_app_store(balloon, indent) ==
    strip_suffix(AddFields(indent, balloon,
        <<"app_name", "description", "platform", "genre", "url">>, indent))

\* the fields of a placemark, in the order format_placemark writes them
PlacemarkFields ==
    <<"place_name", "url", "name", "address", "state", "city", "iso_country_code",
      "postal_code", "country", "street", "sub_administrative_area", "sub_locality">>

\* format_placemark
format_placemark(balloon, indent) ==
    strip_suffix(AddFields(indent, balloon, PlacemarkFields, indent))

\* '\n' replaced by indent and '\n'
RECURSIVE ReplaceBreaks(_, _)
ReplaceBreaks(string, indent) ==
    IF string = <<>> THEN <<>>
    ELSE (IF Head(string) = NL THEN indent \o <<NL>> ELSE <<Head(string)>>)
            \o ReplaceBreaks(Tail(string), indent)

\* format_handwriting: the path of the saved drawing, or the drawing in
\* characters when nothing was saved
format_handwriting(balloon, indent) ==
    IF balloon.filepath # <<>> THEN indent \o balloon.filepath
    ELSE ReplaceBreaks(balloon.drawing, indent)

\* format_apple_pay
format_apple_pay(balloon, indent) ==
    indent \o (IF balloon.caption # <<>> THEN balloon.caption \o <<" transaction: ">>
               ELSE <<>>)
           \o (IF balloon.ldtext # <<>> THEN balloon.ldtext ELSE <<"unknown amount">>)

\* format_fitness
format_fitness(balloon, indent) ==
    indent \o (IF balloon.app_name # <<>> THEN balloon.app_name \o <<" message: ">>
               ELSE <<>>)
           \o (IF balloon.ldtext # <<>> THEN balloon.ldtext ELSE <<"unknown workout">>)

\* format_slideshow
format_slideshow(balloon, indent) ==
    indent \o (IF balloon.ldtext # <<>> THEN <<"Photo album: ">> \o balloon.ldtext
               ELSE <<>>)
           \o (IF balloon.url # <<>> THEN <<SP>> \o balloon.url ELSE <<>>)

\* format_find_my
format_find_my(balloon, indent) ==
    indent \o (IF balloon.app_name # <<>> THEN balloon.app_name \o <<": ">> ELSE <<>>)
           \o (IF balloon.ldtext # <<>> THEN <<SP>> \o balloon.ldtext ELSE <<>>)

\* format_check_in: the caption and the time under the first of the keys
\* estimatedEndTime, triggerTime, sendDate that the query string holds
\* (balloon.query is that key)
format_check_in(balloon, indent) ==
    indent \o (IF balloon.caption # <<>> THEN balloon.caption ELSE <<"Check In">>)
           \o (CASE balloon.query = <<"estimatedEndTime">> ->
                        <<NL, "Expected at ", format(0)>>
                 [] balloon.query = <<"triggerTime">> ->
                        <<NL, "Was expected at ", format(0)>>
                 [] balloon.query = <<"sendDate">> ->
                        <<NL, "Checked in at ", format(0)>>
                 [] OTHER -> <<>>)

\* format_generic_app
format_generic_app(balloon, bundle_id, indent) ==
    LET name == IF balloon.app_name # <<>> THEN balloon.app_name ELSE bundle_id
    IN strip_suffix(AddFields(Header(name, indent), balloon,
            <<"title", "subtitle", "caption", "subcaption", "trailing_caption",
              "trailing_subcaption">>, indent))

\* message.is_handwriting(), message.is_url(): the balloon of an App message
is_handwriting(message) == message.variant = "App" /\ message.balloon = "Handwriting"

is_url(message) == message.variant = "App" /\ message.balloon = "URL"

\* lines 561-573: the formatter of a URL message's override
FormatOverride(message, indent) ==
    CASE message.override = "Normal" -> format_url(message, message.bubble, indent)
      [] message.override = "AppleMusic" -> format_music(message.bubble, indent)
      [] message.override = "Collaboration" -> format_collaboration(message.bubble, indent)
      [] message.override = "AppStore" -> format_app_store(message.bubble, indent)
      [] OTHER -> format_placemark(message.bubble, indent)

\* lines 580-594: the formatter of an app's balloon; the arms of Handwriting
\* and URL are unreachable!()
FormatBalloon(message, indent) ==
    CASE message.balloon = "Application" ->
            Returned(format_generic_app(message.bubble, message.bundle_id, indent))
      [] message.balloon = "ApplePay" -> Returned(format_apple_pay(message.bubble, indent))
      [] message.balloon = "Fitness" -> Returned(format_fitness(message.bubble, indent))
      [] message.balloon = "Slideshow" -> Returned(format_slideshow(message.bubble, indent))
      [] message.balloon = "CheckIn" -> Returned(format_check_in(message.bubble, indent))
      [] message.balloon = "FindMy" -> Returned(format_find_my(message.bubble, indent))
      [] OTHER -> Panicked

\* format_app: payload.raw and payload.value say whether raw_payload_data and
\* payload_data return Some, payload.handwritten, payload.plist and
\* payload.decoded whether from_payload, parse_plist and the balloon's decoder
\* succeed
format_app(message, indent) ==
    IF message.variant # "App" THEN Failed("WrongMessageType")
    ELSE IF is_handwriting(message) /\ message.payload.raw
    THEN IF message.payload.handwritten
         THEN Returned(format_handwriting(message.bubble, indent))
         ELSE Failed("HandwritingError")
    ELSE IF message.payload.value
    THEN IF ~message.payload.plist THEN Failed("InvalidType")
         ELSE IF ~message.payload.decoded THEN Failed("MissingKey")
         ELSE IF is_url(message) THEN Returned(FormatOverride(message, indent))
         ELSE FormatBalloon(message, indent)
    ELSE IF is_url(message) /\ message.text # <<>> THEN Returned(message.text)
    ELSE Failed("NoPayload")

AdvanceIndex_Always(attachment_index, result) == attachment_index + 1

\* attachment_index += 1, in the Ok arm of format_attachment only
AdvanceIndex(attachment_index, result) ==
    IF result.ok THEN attachment_index + 1 ELSE attachment_index

\* lines 342-438: one part of the body; attachment_index is the position in
\* the message's attachments (counted from 0)
FormatComponent(message, part, attachment_index, formatted_message, indent) ==
    CASE part.kind = "Text" ->
            [kind |-> "Ok", index |-> attachment_index,
             text |->
                IF part.status # "Original"
                THEN LET edited == format_edited(part, indent)
                     IN IF edited # <<>>
                        THEN add_line(formatted_message, edited[1], indent)
                        ELSE formatted_message
                ELSE add_line(formatted_message, <<part.text>>, indent)]
      [] part.kind = "Attachment" ->
            IF attachment_index < Len(message.attachments)
            THEN LET attachment == message.attachments[attachment_index + 1] IN
                 IF attachment.is_sticker
                 THEN [kind |-> "Ok", index |-> attachment_index,
                       text |-> add_line(formatted_message,
                                         format_sticker(attachment, message.who), indent)]
                 ELSE LET result == format_attachment(attachment) IN
                      [kind |-> "Ok", index |-> AdvanceIndex(attachment_index, result),
                       text |-> add_line(formatted_message, result.text, indent)]
            ELSE [kind |-> "Ok", index |-> attachment_index,
                  text |-> add_line(formatted_message, <<"Attachment missing!">>, indent)]
      [] part.kind = "App" ->
            LET bubble == format_app(part, indent) IN
            [kind |-> IF bubble.kind = "Panic" THEN "Panic" ELSE "Ok",
             index |-> attachment_index,
             text |->
                IF bubble.kind = "Ok"
                THEN add_line(formatted_message, bubble.text, indent)
                ELSE add_line(formatted_message,
                              <<"Unable to format app message: ">> \o bubble.text, indent)]
      [] OTHER ->
            [kind |-> "Ok", index |-> attachment_index,
             text |->
                LET edited == format_edited(part, indent)
                IN IF edited # <<>>
                   THEN add_line(formatted_message, edited[1], indent)
                   ELSE formatted_message]

\* format_expressive: the label of the effect named by expressive_send_style_id
format_expressive(msg) ==
    CASE msg.expressive = <<"Confetti">> -> <<"Sent with Confetti">>
      [] msg.expressive = <<"Slam">> -> <<"Sent with Slam">>
      [] msg.expressive = <<"Loud">> -> <<"Sent with Loud">>
      [] msg.expressive = <<>> -> <<>>
      [] OTHER -> msg.expressive

HandleExpressive_Once(message, idx, formatted_message, indent) ==
    IF message.expressive # <<>> /\ idx = Len(message.parts)
    THEN add_line(formatted_message, format_expressive(message), indent)
    ELSE formatted_message

\* lines 441-444, in the iteration of part idx: the label of the message's
\* expressive, when expressive_send_style_id is Some
HandleExpressive(message, idx, formatted_message, indent) ==
    IF message.expressive # <<>>
    THEN add_line(formatted_message, format_expressive(message), indent)
    ELSE formatted_message

RECURSIVE format_message(_, _)
RECURSIVE HandleReplies(_, _, _, _)
RECURSIVE FormatParts(_, _, _, _, _)
RECURSIVE AddReply(_, _, _, _, _)
RECURSIVE AfterComponent(_, _, _, _)
RECURSIVE AfterTapbacks(_, _, _, _, _)
RECURSIVE AfterReplies(_, _, _, _, _)
RECURSIVE AfterBody(_, _, _)

\* lines 472-486: the replies to a part that are not tapbacks, each rendered
\* by 'self.format_message(reply, 4)?'; a failure leaves the closure
HandleReplies(replies, i, formatted_message, indent) ==
    IF i > Len(replies) THEN Returned(formatted_message)
    ELSE IF replies[i].is_tapback
    THEN HandleReplies(replies, i + 1, formatted_message, indent)
    ELSE AddReply(replies, i, formatted_message, format_message(replies[i], 4), indent)

\* lines 477-481: the rendered reply is added, or its failure returned
AddReply(replies, i, formatted_message, reply, indent) ==
    IF reply.kind # "Ok" THEN reply
    ELSE HandleReplies(replies, i + 1,
                       add_line(formatted_message, reply.text, indent), indent)

\* lines 341-487: the parts from the idx-th on (counted from 1), each followed
\* by the expressive of the message, its tapbacks and its replies
FormatParts(message, idx, attachment_index, formatted_message, indent) ==
    IF idx > Len(message.parts) THEN Returned(formatted_message)
    ELSE AfterComponent(message, idx,
                        FormatComponent(message, message.parts[idx], attachment_index,
                                        formatted_message, indent),
                        indent)

\* lines 441-469 of the iteration of part idx: the expressive and the tapbacks
\* follow the part's own output
AfterComponent(message, idx, component, indent) ==
    IF component.kind # "Ok" THEN Panicked
    ELSE AfterTapbacks(message, idx, component.index,
                       HandleTapbacks(
                           HandleExpressive(message, idx, component.text, indent),
                           message.parts[idx].tapbacks, indent),
                       indent)

\* lines 471-486 of the iteration of part idx: the replies follow the tapbacks
AfterTapbacks(message, idx, attachment_index, tapbacks, indent) ==
    IF tapbacks.kind # "Ok" THEN tapbacks
    ELSE AfterReplies(message, idx, attachment_index,
                      HandleReplies(message.parts[idx].replies, 1, tapbacks.text, indent),
                      indent)

\* line 487: the next iteration of the loop over the parts
AfterReplies(message, idx, attachment_index, replies, indent) ==
    IF replies.kind # "Ok" THEN replies
    ELSE FormatParts(message, idx + 1, attachment_index, replies.text, indent)

\* a line that is added when its condition holds
Line(cond, string, part, indent) ==
    IF cond THEN add_line(string, part, indent) ELSE string

\* indent.is_empty()
TopLevel(indent) == indent = <<>>

\* Writer::format_message; message.fault says which of the two queries of
\* lines 320 and 321 fails, if any
format_message(message, indent_size) ==
    LET indent == Indent(indent_size)
        time == add_line(<<>>, <<message.date>>, indent)
        sender == add_line(time, <<message.who>>, indent)
        deleted == Line(message.deleted, sender,
                        <<"This message was deleted from the conversation!">>, indent)
        subject == Line(message.subject # <<>>, deleted, message.subject, indent)
        shareplay == Line(message.shareplay, subject,
                          <<"SharePlay Message", NL, "Ended">>, indent)
        location == Line(message.shared_location, shareplay,
                         <<"Started sharing location!">>, indent)
    IN IF message.fault # "none" THEN Failed("TableError")
       ELSE AfterBody(message, FormatParts(message, 1, 0, location, indent), indent)

\* lines 489-503: the note of a reply and the line break that ends a
\* top-level render
AfterBody(message, body, indent) ==
    IF body.kind # "Ok" THEN body
    ELSE LET note == Line(message.is_reply /\ TopLevel(indent), body.text,
                          <<"This message responded to an earlier message.">>, indent)
         IN Returned(IF TopLevel(indent) THEN note \o <<NL>> ELSE note)

\* ---- the messages explored ----

\* the name of the file in a slot
FileName(i) ==
    CASE i = 1 -> "1.jpg" [] i = 2 -> "2.jpg" [] i = 3 -> "3.jpg" [] OTHER -> "n.jpg"

\* where the file in a slot is copied to
FilePath(i) ==
    CASE i = 1 -> "attachments/1.jpg" [] i = 2 -> "attachments/2.jpg"
      [] i = 3 -> "attachments/3.jpg" [] OTHER -> "attachments/n.jpg"

\* the attachments explored: a file that is copied, a file whose copy fails,
\* a sticker
AttachmentKinds == {"File", "Failed", "Sticker"}

AttachmentOf(kind, i) ==
    [is_sticker |-> kind = "Sticker", copied |-> kind # "Failed", effect |-> <<>>,
     path |-> FilePath(i), filename |-> FileName(i)]

\* the attachments of a message, slot by slot
AttachmentLists ==
    UNION {{[i \in 1..n |-> AttachmentOf(kinds[i], i)] : kinds \in [1..n -> AttachmentKinds]}
            : n \in 0..MaxParts}

\* the tapbacks put on a part: one that is still there, one that was removed
Loved ==
    [variant |-> "Tapback", added |-> TRUE, tapback |-> "Loved", who |-> "+15550001",
     attachments_ok |-> TRUE, attachments |-> <<>>]

Tapbacks ==
    { Loved,
      [Loved EXCEPT !.added = FALSE, !.tapback = "Liked", !.who = "+15550002"] }

\* a sticker put on a part, and one whose attachments cannot be read
Sticker ==
    [Loved EXCEPT !.variant = "Sticker", !.attachments = <<AttachmentOf("Sticker", 1)>>]

BrokenSticker == [Sticker EXCEPT !.attachments_ok = FALSE]

TapbackLists == UNION {[1..n -> Tapbacks] : n \in 0..MaxTapbacks}

\* the value of a field that is present
FieldValue(field) ==
    CASE field = "query" -> <<"estimatedEndTime">>
      [] field = "drawing" -> <<"/\\", NL, "\\/">>
      [] OTHER -> <<field>>

\* a decoded balloon: the fields of its kind, those in present with a value
Bubble(fields, present) ==
    [f \in {fields[i] : i \in DOMAIN fields} |->
        IF f \in present THEN FieldValue(f) ELSE <<>>]

\* the fields of each kind of balloon, in the order its formatter reads them
BalloonFields(balloon, override) ==
    CASE balloon = "URL" /\ override = "Normal" -> <<"url", "title", "summary">>
      [] balloon = "URL" /\ override = "AppleMusic" ->
            <<"track_name", "album", "artist", "url">>
      [] balloon = "URL" /\ override = "Collaboration" ->
            <<"app_name", "bundle_id", "title", "url">>
      [] balloon = "URL" /\ override = "AppStore" ->
            <<"app_name", "description", "platform", "genre", "url">>
      [] balloon = "URL" -> PlacemarkFields
      [] balloon = "Application" ->
            <<"app_name", "title", "subtitle", "caption", "subcaption",
              "trailing_caption", "trailing_subcaption">>
      [] balloon = "ApplePay" -> <<"caption", "ldtext">>
      [] balloon = "Fitness" -> <<"app_name", "ldtext">>
      [] balloon = "Slideshow" -> <<"ldtext", "url">>
      [] balloon = "FindMy" -> <<"app_name", "ldtext">>
      [] balloon = "CheckIn" -> <<"caption", "query">>
      [] OTHER -> <<"filepath", "drawing">>

\* raw_payload_data and payload_data return Some and every decoder succeeds
GoodPayload ==
    [raw |-> TRUE, value |-> TRUE, handwritten |-> TRUE, plist |-> TRUE,
     decoded |-> TRUE]

\* an App message: its variant and balloon, the override of a URL balloon, the
\* state of its payload, its text and the decoded balloon
AppOf(variant, balloon, override, payload, text, present) ==
    [kind |-> "App", variant |-> variant, balloon |-> balloon, override |-> override,
     payload |-> payload, text |-> text, bundle_id |-> <<"com.example.app">>,
     bubble |-> Bubble(BalloonFields(balloon, override), present)]

\* the edit histories of a part (dates in minutes): 3 minutes apart, a third
\* event 2 minutes later, an event dated before the first, two events in the
\* same second
EditHistories ==
    { << [date |-> 0, text |-> "helo"], [date |-> 3, text |-> "hello"] >>,
      << [date |-> 0, text |-> "helo"], [date |-> 3, text |-> "hello"],
         [date |-> 5, text |-> "hello!"] >>,
      << [date |-> 3, text |-> "helo"], [date |-> 0, text |-> "hello"] >>,
      << [date |-> 3, text |-> "helo"], [date |-> 3, text |-> "hello"] >> }

\* the contents of a part
Components ==
    { [kind |-> "Text", status |-> "Original", text |-> "hello"],
      [kind |-> "Text", status |-> "Edited",
       edit_history |-> << [date |-> 0, text |-> "helo"],
                           [date |-> 3, text |-> "hello"] >>],
      [kind |-> "Attachment"],
      AppOf("App", "URL", "Normal", GoodPayload, <<>>, {"url", "title"}),
      AppOf("App", "URL", "AppleMusic", GoodPayload, <<>>, {"track_name", "artist"}) }

ComponentLists == UNION {[1..n -> Components] : n \in 0..MaxParts}

NoNotes == [deleted |-> FALSE, subject |-> <<>>, shareplay |-> FALSE,
            shared_location |-> FALSE]

\* the lines between the sender and the body
Notes ==
    { NoNotes,
      [NoNotes EXCEPT !.deleted = TRUE],
      [NoNotes EXCEPT !.subject = <<"Subject">>],
      [deleted |-> TRUE, subject |-> <<"Subject">>, shareplay |-> TRUE,
       shared_location |-> TRUE] }

\* a message: its parts are the components, the annotated one (if any) with
\* the given tapbacks and replies
MessageOf(date, who, notes, expressive, is_reply, components, annotated, a) ==
    [date |-> date, who |-> who,
     deleted |-> notes.deleted, subject |-> notes.subject,
     shareplay |-> notes.shareplay, shared_location |-> notes.shared_location,
     expressive |-> expressive, is_reply |-> is_reply,
     is_tapback |-> FALSE, fault |-> "none",
     attachments |-> <<AttachmentOf("File", 1)>>,
     parts |-> [i \in 1..Len(components) |->
                    [k \in DOMAIN components[i] \cup {"tapbacks", "replies"} |->
                        IF k = "tapbacks"
                        THEN IF i = annotated THEN a.tapbacks ELSE <<>>
                        ELSE IF k = "replies"
                        THEN IF i = annotated THEN a.replies ELSE <<>>
                        ELSE components[i][k]]]]

\* the replies to a part: messages of the same thread, one of them with a
\* tapback of its own
PlainReply ==
    MessageOf("May 17, 2022  6:00:00 PM", "+15550001", NoNotes, <<>>, TRUE,
              << [kind |-> "Text", status |-> "Original", text |-> "yes"] >>,
              0, [tapbacks |-> <<>>, replies |-> <<>>])

LovedReply ==
    MessageOf("May 17, 2022  6:05:00 PM", "Me", NoNotes, <<>>, TRUE,
              << [kind |-> "Text", status |-> "Original", text |-> "no"] >>,
              1, [tapbacks |-> <<Loved>>, replies |-> <<>>])

ReplyLists == { <<>>, <<PlainReply>>, <<LovedReply>> }

\* what the annotated part carries
Annotations ==
    {[tapbacks |-> t, replies |-> <<>>] : t \in TapbackLists}
        \cup {[tapbacks |-> <<>>, replies |-> r] : r \in ReplyLists}
        \cup {[tapbacks |-> <<Loved>>, replies |-> <<PlainReply>>]}

NoAnnotation == [tapbacks |-> <<>>, replies |-> <<>>]

\* a reply whose attachments cannot be read, and a reply that is a tapback
FailingReply == [PlainReply EXCEPT !.fault = "attachments"]

TapbackReply ==
    [PlainReply EXCEPT !.is_tapback = TRUE, !.date = "May 17, 2022  6:10:00 PM"]

\* a reply with a reply of its own
NestedReply ==
    MessageOf("May 17, 2022  6:05:00 PM", "Me", NoNotes, <<>>, TRUE,
              << [kind |-> "Text", status |-> "Original", text |-> "no"] >>,
              1, [tapbacks |-> <<>>, replies |-> <<PlainReply>>])

\* annotations with stickers, with items that fail, and with deeper threads
Threads ==
    { [tapbacks |-> <<Sticker>>, replies |-> <<>>],
      [tapbacks |-> <<BrokenSticker>>, replies |-> <<>>],
      [tapbacks |-> <<Loved, BrokenSticker>>, replies |-> <<>>],
      [tapbacks |-> <<>>, replies |-> <<FailingReply>>],
      [tapbacks |-> <<>>, replies |-> <<PlainReply, FailingReply>>],
      [tapbacks |-> <<>>, replies |-> <<TapbackReply>>],
      [tapbacks |-> <<>>, replies |-> <<TapbackReply, PlainReply>>],
      [tapbacks |-> <<>>, replies |-> <<LovedReply, PlainReply>>],
      [tapbacks |-> <<>>, replies |-> <<NestedReply>>],
      [tapbacks |-> <<>>, replies |-> <<NestedReply, PlainReply>>] }

\* App parts whose payload is missing or does not decode
BrokenApps ==
    { AppOf("App", "URL", "Normal", [GoodPayload EXCEPT !.value = FALSE], <<>>, {}),
      AppOf("App", "Application", "Normal", [GoodPayload EXCEPT !.decoded = FALSE], <<>>,
            {"title"}),
      AppOf("App", "Handwriting", "Normal", [GoodPayload EXCEPT !.raw = FALSE], <<>>,
            {"filepath"}) }

\* what the part at position annotated carries (0: no part is annotated)
AnnotationsAt(annotated) ==
    IF annotated = 0 THEN {NoAnnotation} ELSE Annotations \ {NoAnnotation}

\* expressive_send_style_id: None, or Some(the effect)
Expressives == { <<>>, <<"Slam">> }

\* a call of format_message: ret is what it returns (Ok, Err, or Panic when
\* it does not return), out the String of an Ok
RenderOf(message, indent_size) ==
    [message |-> message, indent_size |-> indent_size, done |-> FALSE, ret |-> "none",
     out |-> <<>>]

RenderIdle == rm = RenderOf(PlainReply, 0)

\* the renders explored: messages of up to MaxParts parts at top level, and
\* replies as format_message(reply, 4) renders them
RenderInit ==
    \/ \E notes \in Notes, expressive \in Expressives, is_reply \in BOOLEAN,
          components \in ComponentLists :
            \E annotated \in 0..Len(components) :
                \E a \in AnnotationsAt(annotated) :
                    rm = RenderOf(MessageOf("May 17, 2022  5:29:42 PM", "Me", notes,
                                            expressive, is_reply, components, annotated,
                                            a), 0)
    \/ \E notes \in Notes, expressive \in Expressives, component \in Components,
          a \in Annotations :
            rm = RenderOf(MessageOf("May 17, 2022  5:29:42 PM", "Me", notes, expressive,
                                    TRUE, <<component>>, 1, a), 4)
    \/ \E edit_history \in EditHistories, indent_size \in {0, 4},
          components \in ComponentLists :
            rm = RenderOf(MessageOf("May 17, 2022  5:29:42 PM", "Me", NoNotes, <<>>,
                                    indent_size = 4,
                                    << [kind |-> "Text", status |-> "Edited",
                                        edit_history |-> edit_history] >> \o components,
                                    0, NoAnnotation), indent_size)
    \/ \E component \in Components, a \in Threads, expressive \in Expressives,
          fault \in {"none", "attachments", "replies"}, rest \in ComponentLists :
            rm = RenderOf([MessageOf("May 17, 2022  5:29:42 PM", "Me", NoNotes,
                                     expressive, FALSE, <<component>> \o rest, 1, a)
                            EXCEPT !.fault = fault], 0)
    \/ \E component \in BrokenApps, components \in ComponentLists,
          indent_size \in {0, 4} :
            rm = RenderOf(MessageOf("May 17, 2022  5:29:42 PM", "Me", NoNotes, <<>>,
                                    indent_size = 4, <<component>> \o components, 0,
                                    NoAnnotation), indent_size)
    \/ \E n \in 1..MaxParts, attachments \in AttachmentLists :
            rm = RenderOf([MessageOf("May 17, 2022  5:29:42 PM", "Me", NoNotes, <<>>,
                                     FALSE, [i \in 1..n |-> [kind |-> "Attachment"]], 0,
                                     NoAnnotation)
                            EXCEPT !.attachments = attachments], 0)

\* a call of format_message
render ==
    /\ ~rm.done
    /\ LET result == format_message(rm.message, rm.indent_size)
       IN rm' = [rm EXCEPT !.done = TRUE, !.ret = result.kind,
                           !.out = IF result.kind = "Ok" THEN result.text ELSE <<>>]
    /\ UNCHANGED notRender

RenderNext == render

-----------------------------------------------------------------------------
\* App balloons (DB::format_app and the BalloonFormatter it calls)

\* enum CustomBalloon
CustomBalloons ==
    {"Application", "ApplePay", "Fitness", "Slideshow", "CheckIn", "FindMy",
     "Handwriting", "URL"}

\* enum URLOverride
URLOverrides == {"Normal", "AppleMusic", "Collaboration", "AppStore", "SharedPlacemark"}

\* a balloon and, for a URL balloon, its override
BalloonKinds ==
    {<<"URL", override>> : override \in URLOverrides}
        \cup {<<balloon, "Normal">> : balloon \in CustomBalloons \ {"URL"}}

\* the fields of a kind of balloon
FieldsOf(kind) ==
    {BalloonFields(kind[1], kind[2])[i] : i \in DOMAIN BalloonFields(kind[1], kind[2])}

\* what the queries and decoders of a payload can do
Payloads ==
    [raw : BOOLEAN, value : BOOLEAN, handwritten : BOOLEAN, plist : BOOLEAN,
     decoded : BOOLEAN]

\* message.text
Texts == { <<>>, <<"text">> }

\* a call of format_app: ret is what it returns (Ok, Err, or Panic when it
\* does not return), out the String of an Ok or the reason of an Err
AppCall(message, indent_size) ==
    [message |-> message, indent_size |-> indent_size, done |-> FALSE, ret |-> "none",
     out |-> <<>>]

AppIdle == am = AppCall(AppOf("App", "URL", "Normal", GoodPayload, <<>>, {}), 0)

\* the calls explored: every kind of balloon with every choice of present
\* fields and a payload that decodes, and every variant and balloon with every
\* state of the payload
AppInit ==
    \/ \E kind \in BalloonKinds, text \in Texts, indent_size \in {0, 4} :
            \E present \in SUBSET FieldsOf(kind) :
                am = AppCall(AppOf("App", kind[1], kind[2], GoodPayload, text, present),
                             indent_size)
    \/ \E variant \in {"App", "Normal"}, kind \in BalloonKinds, payload \in Payloads,
          text \in Texts :
            am = AppCall(AppOf(variant, kind[1], kind[2], payload, text, FieldsOf(kind)),
                         0)

\* a call of format_app
app ==
    /\ ~am.done
    /\ LET result == format_app(am.message, Indent(am.indent_size))
       IN am' = [am EXCEPT !.done = TRUE, !.ret = result.kind, !.out = result.text]
    /\ UNCHANGED notApp

AppNext == app

-----------------------------------------------------------------------------
\* Specifications

\* the components the actions of a specification leave in their first state
Others == PipeInit /\ SockInit /\ StoreInit /\ WorkInit

Init == Others /\ KeyIdle /\ EndpointIdle /\ RenderIdle /\ AppIdle

Spec == Init /\ [][Next]_vars

\* the socket sink and its peer alone
SpecSocket == Init /\ [][SockNext]_vars

\* the embedded sink alone
SpecStore == Init /\ [][StoreNext]_vars

\* write_message's key, over every explored message
InitKey == Others /\ KeyInit /\ EndpointIdle /\ RenderIdle /\ AppIdle

SpecKey == InitKey /\ [][KeyNext]_vars

\* HttpDatabase::create, over every explored environment
InitEndpoint == Others /\ KeyIdle /\ EndpointInit /\ RenderIdle /\ AppIdle

SpecEndpoint == InitEndpoint /\ [][EndpointNext]_vars

\* format_message, over every explored message
InitRender == Others /\ KeyIdle /\ EndpointIdle /\ RenderInit /\ AppIdle

SpecRender == InitRender /\ [][RenderNext]_vars

\* format_app, over every explored balloon and payload
InitApp == Others /\ KeyIdle /\ EndpointIdle /\ RenderIdle /\ AppInit

SpecApp == InitApp /\ [][AppNext]_vars

\* concurrent callers of insert_batch on the embedded sink and their workers
SpecWorkers == Init /\ [][WorkNext]_vars

\* a caller of each sink and its worker
SpecSync == Init /\ [][SyncNext]_vars

-----------------------------------------------------------------------------
\* Properties of the export pipeline (checked under Spec)

InsertCalls == SelectSeq(calls, LAMBDA c : c.op = "insert_batch")

CallsOf(op) == {i \in 1..Len(calls) : calls[i].op = op}

RECURSIVE Concat(_)
Concat(cs) == IF cs = <<>> THEN <<>> ELSE Head(cs).batch \o Concat(Tail(cs))

\* C1: insert_batch is called as soon as the buffer holds 1000 records: the
\* buffer never stays at 1000 or more, no batch holds more than 1000 records,
\* every batch but the last holds exactly 1000, and a completed run over 1500
\* messages made exactly two insert_batch calls, of 1000 then 500 records.
C1_BatchSizes ==
    /\ Len(messages) < FlushThreshold
    /\ \A i \in 1..Len(InsertCalls) :
        /\ Len(InsertCalls[i].batch) <= FlushThreshold
        /\ i < Len(InsertCalls) => Len(InsertCalls[i].batch) = FlushThreshold
    /\ (pc = "done" /\ pos = 1500) =>
        /\ Len(InsertCalls) = 2
        /\ Len(InsertCalls[1].batch) = 1000
        /\ Len(InsertCalls[2].batch) = 500

C1_Witness == pc = "done" /\ pos = 1500 /\ Len(InsertCalls) = 2

\* C2: when a run completes successfully, the batches passed to insert_batch,
\* concatenated in call order, are the records of the streamed messages in
\* stream order, each exactly once.
C2_BatchesInStreamOrder ==
    pc = "done" => Concat(InsertCalls) = [i \in 1..pos |-> Rowid(i)]

C2_Witness == pc = "done" /\ pos > FlushThreshold /\ Len(InsertCalls) = 2

\* C3 (as claimed): a successful run ends with the insert_batch of the
\* remaining buffer, then exactly one Sink.flush, then exactly one graph
\* materialization.
C3_EndOfStreamOrder ==
    pc = "done" =>
        LET n == Len(calls) IN
        /\ n >= 3
        /\ calls[n].op = "create_graph"
        /\ calls[n - 1].op = "flush"
        /\ calls[n - 2].op = "insert_batch"
        /\ Cardinality(CallsOf("flush")) = 1
        /\ Cardinality(CallsOf("create_graph")) = 1

\* C4 (as claimed): a message whose rendering fails is skipped and the run
\* goes on: the run never ends with the error of a failed render.
C4_RenderFailureSkipped == error # "render"

\* C5: a failed insert_batch ends the run with that error: it is the last
\* call made on the sink (no resubmission, no later batch, no create_graph).
C5_InsertFailureFatal ==
    \A i \in 1..Len(calls) :
        (calls[i].op = "insert_batch" /\ ~calls[i].ok) =>
            /\ i = Len(calls)
            /\ pc = "failed"
            /\ error = "sink"

C5_Witness ==
    /\ pc = "failed"
    /\ error = "sink"
    /\ Len(calls) = 2
    /\ calls[1].ok
    /\ ~calls[2].ok

-----------------------------------------------------------------------------
\* Properties of the socket sink (checked under SpecSocket)

InsertsReturned == {i \in 1..Len(returns) : returns[i].op = "insert_batch"}

\* C6 (as claimed): insert_batch returns an error when the peer answers its
\* frame with a byte other than 'K', and success when the peer answers 'K'.
C6_InsertResultIsPeerAnswer ==
    \A i \in InsertsReturned :
        answers[i] # 0 => (returns[i].ok <=> answers[i] = REPLY_OK)

\* C7 (as claimed): every command is followed by the client reading one
\* reply byte: once the peer has answered everything and no call is running,
\* no reply is left unread, and the byte an insert_batch read is the reply to
\* its own frame.
C7_RequestResponse ==
    /\ (cpc = "idle" /\ c2s = <<>>) => s2c = <<>>
    /\ \A i \in InsertsReturned : returns[i].re = i

\* C8 (as claimed): every insert frame is 'I', a 4-byte big-endian length
\* and the payload, with the length field equal to the payload's byte count.
C8_LengthFieldIsPayloadSize ==
    \A i \in 1..Len(frames) :
        LET w == frames[i].written IN
        /\ Len(w) = 6
        /\ IsByte(w[1], CMD_INSERT)
        /\ w[6].k = "bytes"
        /\ w[6].v = frames[i].size
        /\ FromBE(<<w[2].v, w[3].v, w[4].v, w[5].v>>) = frames[i].size

-----------------------------------------------------------------------------
\* Properties of the embedded sink (checked under SpecStore)

\* C9 (as claimed): insert_batch is all-or-nothing: after a call that
\* returned success every record of the batch is stored, and after a call
\* that returned an error none of them is.
C9_InsertAllOrNothing ==
    last.op = "insert_batch" =>
        Len(stored) = IF last.ok THEN last.before + last.n ELSE last.before

PhonesOf(msgs) == {msgs[i].phone_number : i \in 1..Len(msgs)}

ChatsOf(msgs) == {msgs[i].unique_chat_id : i \in 1..Len(msgs)}

\* C10: once create_graph has run on the current set of messages, however many
\* times, the store holds exactly one Person per distinct phone_number and
\* exactly one Thread per distinct unique_chat_id of the messages.
C10_OneEntityPerKey ==
    runsOnSet >= 1 =>
        /\ {persons[i].phone_number : i \in 1..Len(persons)} = PhonesOf(stored)
        /\ Len(persons) = Cardinality(PhonesOf(stored))
        /\ {threads[i].unique_chat_id : i \in 1..Len(threads)} = ChatsOf(stored)
        /\ Len(threads) = Cardinality(ChatsOf(stored))

C10_Witness ==
    /\ runsOnSet = 2
    /\ Len(stored) = 3
    /\ Len(persons) = 2
    /\ Len(threads) = 2
    /\ Len(sent) = 6

graphTables == <<persons, threads, sent, messaged_in, in_thread>>

C12_SetupIdempotent ==
    [][last'.op = "setup_db" =>
        /\ schema' = schema
        /\ (last'.at = 0 => last'.ok)]_vars

C12_Witness ==
    /\ last.op = "setup_db"
    /\ last.ok
    /\ Cardinality(schema) = Len(SchemaStatements)
    /\ \E d \in schema : d.kind = "INDEX" /\ d.on = "persons"
    /\ \E d \in schema : d.kind = "INDEX" /\ d.on = "threads"

\* C13: the record built for a message has a non-empty unique_chat_id: the
\* deduplicated id's decimal text when the conversation resolves; otherwise
\* the chat_id's; otherwise the sender's name followed by ":Missing_chat_id".
C13_UniqueChatIdPriority ==
    wm.done =>
        /\ wm.unique_chat_id # <<>>
        /\ wm.conversation # <<>> => wm.unique_chat_id = to_string(wm.conversation[1])
        /\ (wm.conversation = <<>> /\ wm.chat_id # <<>>) =>
                wm.unique_chat_id = to_string(wm.chat_id[1])
        /\ (wm.conversation = <<>> /\ wm.chat_id = <<>>) =>
                /\ SubSeq(wm.unique_chat_id, 1, Len(wm.who)) = wm.who
                /\ SubSeq(wm.unique_chat_id, Len(wm.who) + 1, Len(wm.unique_chat_id))
                        = MissingChatId

\* the three cases: a resolved conversation that differs from the chat_id, a
\* chat_id alone, and neither (with a sender without a name)
C13_Witness ==
    /\ wm.done
    /\ wm.conversation = <<120>>
    /\ wm.chat_id = <<7>>
    /\ wm.unique_chat_id = <<"1", "2", "0">>

C13_WitnessFallback ==
    /\ wm.done
    /\ wm.conversation = <<>>
    /\ wm.chat_id = <<>>
    /\ wm.who = <<>>
    /\ wm.unique_chat_id = MissingChatId

\* C14: insert_batch is synchronous: while the worker of a batch has not
\* terminated its caller is blocked in join and has buffered nothing since it
\* took the buffer, and a call that has returned returned the result of its
\* terminated worker.
C14_InsertBatchSynchronous ==
    [][\A t \in Callers :
        /\ worker'[t].state # "none" =>
                /\ caller'[t].pc = "joining"
                /\ caller'[t].buffered = 0
                /\ ~caller'[t].returned
        /\ (caller'[t].returned /\ ~caller[t].returned) =>
                /\ worker[t].state = "done"
                /\ caller'[t].ret = worker[t].result]_vars

\* a failed batch on the embedded sink and a successful one on the HTTP sink
C14_Witness ==
    /\ caller[1].returned
    /\ caller[1].ret.kind = "create"
    /\ stored # <<>>
    /\ caller[HTTP].returned
    /\ caller[HTTP].ret.ok
    /\ http.posted = <<2>>

Count(table, message) == Cardinality({i \in 1..Len(table) : table[i] = message})

EndsWith(string, suffix) ==
    /\ Len(suffix) <= Len(string)
    /\ SubSeq(string, Len(string) - Len(suffix) + 1, Len(string)) = suffix

\* C16: the HTTP sink sends a batch as one POST that carries all its records
\* (none when the worker's runtime could not start); insert_batch returns an
\* error exactly when no response arrived or its status is not 2xx; the error
\* of a non-2xx response ends with the response's body text.
C16_OnePostPerBatch ==
    /\ Len(http.posted) <= 1
    /\ (worker[HTTP].state = "done" /\ worker[HTTP].result.kind # "runtime") =>
            http.posted = <<worker[HTTP].n>>
    /\ caller[HTTP].returned =>
            /\ caller[HTTP].ret.ok <=>
                    (http.posted # <<>> /\ http.status >= 200 /\ http.status < 300)
            /\ (http.status >= 300 /\ http.read) =>
                    EndsWith(caller[HTTP].ret.text, <<":", " ">> \o http.body)

C16_Witness ==
    /\ caller[HTTP].returned
    /\ ~caller[HTTP].ret.ok
    /\ http.posted = <<2>>
    /\ http.status = 404
    /\ http.body = <<"b", "a", "d">>
    /\ EndsWith(caller[HTTP].ret.text, <<"d", ":", " ", "b", "a", "d">>)

\* C17: whenever a TLS certificate is configured, the base endpoint of the
\* HTTP sink is an https URL, whatever DBPATH holds.
C17_TlsForcesHttps ==
    (hc.done /\ hc.ok /\ hc.tls) =>
        /\ Parse(hc.base_url).ok
        /\ Parse(hc.base_url).scheme = HttpsScheme

\* the line breaks a String ends with
RECURSIVE TrailingBreaks(_)
TrailingBreaks(string) ==
    IF string # <<>> /\ string[Len(string)] = NL
    THEN 1 + TrailingBreaks(SubSeq(string, 1, Len(string) - 1))
    ELSE 0

\* C18: a top-level render ends with exactly one blank line (the line break
\* of its last line and one more), whatever the last part carries; a nested
\* render ends with the line break of its last line and no blank line.
C18_OneTrailingBlankLine ==
    (rm.done /\ rm.ret = "Ok") =>
        TrailingBreaks(rm.out) = IF rm.indent_size = 0 THEN 2 ELSE 1

\* the lines of a String (each without its line break)
RECURSIVE SplitLines(_, _)
SplitLines(string, line) ==
    IF string = <<>> THEN (IF line = <<>> THEN <<>> ELSE <<line>>)
    ELSE IF Head(string) = NL THEN <<line>> \o SplitLines(Tail(string), <<>>)
         ELSE SplitLines(Tail(string), Append(line, Head(string)))

Occurrences(seq, x) == Cardinality({i \in 1..Len(seq) : seq[i] = x})

PlainText(message) ==
    /\ Len(message.parts) = 1
    /\ message.parts[1].kind = "Text"
    /\ message.parts[1].status = "Original"

\* C19: the top-level render of a message whose only part is plain text
\* without edit history has exactly one time line, one sender line and one
\* body line, and ends with a single blank line.
C19_PlainTextLines ==
    (rm.done /\ rm.ret = "Ok" /\ rm.indent_size = 0 /\ PlainText(rm.message)) =>
        LET lines == SplitLines(rm.out, <<>>) IN
        /\ Occurrences(lines, <<rm.message.date>>) = 1
        /\ Occurrences(lines, <<rm.message.who>>) = 1
        /\ Occurrences(lines, <<rm.message.parts[1].text>>) = 1
        /\ TrailingBreaks(rm.out) = 2

\* the parts of a message and of the replies below it that have a tapback
\* that was not removed, and those tapbacks
RECURSIVE AddedBlocks(_, _)
RECURSIVE AddedBlocksIn(_)
RECURSIVE AddedTapbacks(_, _)
RECURSIVE AddedTapbacksIn(_)

AddedBlocksIn(replies) ==
    IF replies = <<>> THEN 0
    ELSE AddedBlocks(Head(replies), 1) + AddedBlocksIn(Tail(replies))

AddedTapbacksIn(replies) ==
    IF replies = <<>> THEN 0
    ELSE AddedTapbacks(Head(replies), 1) + AddedTapbacksIn(Tail(replies))

AddedBlocks(message, i) ==
    IF i > Len(message.parts) THEN 0
    ELSE (IF \E j \in 1..Len(message.parts[i].tapbacks) :
                \/ message.parts[i].tapbacks[j].added
                \/ message.parts[i].tapbacks[j].variant = "Sticker"
          THEN 1 ELSE 0)
         + AddedBlocksIn(message.parts[i].replies)
         + AddedBlocks(message, i + 1)

AddedTapbacks(message, i) ==
    IF i > Len(message.parts) THEN 0
    ELSE Cardinality({j \in 1..Len(message.parts[i].tapbacks) :
                        /\ message.parts[i].tapbacks[j].added
                        /\ message.parts[i].tapbacks[j].variant = "Tapback"})
         + AddedTapbacksIn(message.parts[i].replies)
         + AddedTapbacks(message, i + 1)

\* C20: a removed tapback adds nothing to the render: its actor does not
\* appear, only the tapbacks that were not removed have a '<tapback> by <who>'
\* line, and a part has a "Tapbacks:" header only if one of its tapbacks was
\* not removed (or is a sticker, which has no removed form).
C20_RemovedTapbacksSkipped ==
    (rm.done /\ rm.ret = "Ok") =>
        /\ Occurrences(rm.out, "+15550002") = 0
        /\ Occurrences(rm.out, " by ") = AddedTapbacks(rm.message, 1)
        /\ Occurrences(rm.out, "Tapbacks:") = AddedBlocks(rm.message, 1)

\* a part all of whose tapbacks were removed, and a part with a removed
\* tapback before one that was not
C20_Witness ==
    /\ rm.done
    /\ Len(rm.message.parts) = 2
    /\ Len(rm.message.parts[2].tapbacks) = 2
    /\ \A j \in 1..2 : ~rm.message.parts[2].tapbacks[j].added
    /\ Occurrences(rm.out, "Tapbacks:") = 0

C20_WitnessMixed ==
    /\ rm.done
    /\ Len(rm.message.parts) = 1
    /\ Len(rm.message.parts[1].tapbacks) = 2
    /\ ~rm.message.parts[1].tapbacks[1].added
    /\ rm.message.parts[1].tapbacks[2].added
    /\ Occurrences(rm.out, "Tapbacks:") = 1

Unindent(line) == SelectSeq(line, LAMBDA t : t # SP)

Lines(string) ==
    LET split == SplitLines(string, <<>>) IN [i \in 1..Len(split) |-> Unindent(split[i])]

HasRun(lines, run) ==
    \E k \in 0..(Len(lines) - Len(run)) : \A i \in 1..Len(run) : lines[k + i] = run[i]

Edited(part) == part.kind = "Text" /\ part.status = "Edited"

\* the time from the event before has a readable form
Readable(history, i) == i > 1 /\ history[i].date > history[i - 1].date

ChainLines(history) ==
    [i \in 1..Len(history) |->
        IF i = 1 THEN <<format(history[1].date), history[1].text>>
        ELSE IF Readable(history, i)
        THEN <<"Edited ", Minutes(history[i].date - history[i - 1].date), " later: ",
               history[i].text>>
        ELSE <<history[i].text>>]

ReadableEdits(message) ==
    Cardinality({<<idx, i>> \in (DOMAIN message.parts) \X (1..4) :
                    /\ Edited(message.parts[idx])
                    /\ i <= Len(message.parts[idx].edit_history)
                    /\ Readable(message.parts[idx].edit_history, i)})

\* C21: the chain of an edited part shows every event's text in order, the
\* first after its absolute timestamp and each later one after 'Edited <diff>
\* later:' where diff is the time since the event just before it; a later
\* event whose diff has no readable form has no such prefix. (Lines are
\* compared without their indentation.)
C21_EditChain ==
    (rm.done /\ rm.ret = "Ok"
     /\ \A idx \in DOMAIN rm.message.parts :
                    \A i \in DOMAIN rm.message.parts[idx].replies :
                        \A j \in DOMAIN rm.message.parts[idx].replies[i].parts :
                            ~Edited(rm.message.parts[idx].replies[i].parts[j]))
    => /\ \A idx \in DOMAIN rm.message.parts :
            Edited(rm.message.parts[idx])
            => HasRun(Lines(rm.out), ChainLines(rm.message.parts[idx].edit_history))
       /\ Occurrences(rm.out, "Edited ") = ReadableEdits(rm.message)

OnlyAttachments(message) ==
    /\ message.parts # <<>>
    /\ \A idx \in DOMAIN message.parts :
        /\ message.parts[idx].kind = "Attachment"
        /\ message.parts[idx].tapbacks = <<>>
        /\ message.parts[idx].replies = <<>>
    /\ message.expressive = <<>>
    /\ message.subject = <<>>
    /\ ~message.deleted /\ ~message.shareplay /\ ~message.shared_location

\* the slot a successful render of a file (not a sticker) consumes
Consumes(message, slot) ==
    /\ slot < Len(message.attachments)
    /\ ~message.attachments[slot + 1].is_sticker
    /\ message.attachments[slot + 1].copied

\* the slot the k-th Attachment part resolves: 0 for the first, and one more
\* than the part before when that part consumed its slot
RECURSIVE Slot(_, _)
Slot(message, k) ==
    IF k = 1 THEN 0
    ELSE LET before == Slot(message, k - 1)
         IN IF Consumes(message, before) THEN before + 1 ELSE before

\* the line of a slot: the copy, the name of a file that was not copied, the
\* sticker, or the note of a missing record
ShowsSlot(line, message, slot) ==
    IF slot >= Len(message.attachments) THEN line = <<"Attachment missing!">>
    ELSE LET attachment == message.attachments[slot + 1] IN
         IF attachment.is_sticker
         THEN line = <<"Sticker from ", message.who, ": ", FilePath(slot + 1)>>
         ELSE IF attachment.copied THEN line = <<FilePath(slot + 1)>>
         ELSE line = <<FileName(slot + 1)>>

\* C22: the Attachment parts of a message resolve slots starting at 0; the
\* slot advances by one after a successful render of a file and stays after a
\* failed render, a sticker and a missing record.
C22_AttachmentSlots ==
    (rm.done /\ OnlyAttachments(rm.message))
    => /\ Len(Lines(rm.out)) >= 2 + Len(rm.message.parts)
       /\ \A k \in DOMAIN rm.message.parts :
            ShowsSlot(Lines(rm.out)[2 + k], rm.message, Slot(rm.message, k))

\* a failed render followed by another Attachment part: both show slot 0
C22_Witness ==
    /\ rm.done /\ OnlyAttachments(rm.message)
    /\ Len(rm.message.parts) = 2 /\ Len(rm.message.attachments) = 2
    /\ ~rm.message.attachments[1].copied
    /\ rm.message.attachments[2].copied /\ ~rm.message.attachments[2].is_sticker
    /\ Lines(rm.out)[3] = <<FileName(1)>>
    /\ Lines(rm.out)[4] = <<FileName(1)>>

\* a copied file, then a sticker in slot 1, then no record left
C22_WitnessAdvance ==
    /\ rm.done /\ OnlyAttachments(rm.message)
    /\ Len(rm.message.parts) = 2 /\ Len(rm.message.attachments) = 2
    /\ Lines(rm.out)[3] = <<FilePath(1)>>
    /\ Lines(rm.out)[4] = <<"Sticker from ", "Me", ": ", FilePath(2)>>

\* a single record and two Attachment parts: the second finds none
C22_WitnessMissing ==
    /\ rm.done /\ OnlyAttachments(rm.message)
    /\ Len(rm.message.parts) = 2 /\ Len(rm.message.attachments) = 1
    /\ Lines(rm.out)[3] = <<FilePath(1)>>
    /\ Lines(rm.out)[4] = <<"Attachment missing!">>

\* the tapbacks and replies of a part that fail to format
FailedTapbacks(part) ==
    {i \in DOMAIN part.tapbacks : format_tapback(part.tapbacks[i]).kind = "Err"}

FailedReplies(part) ==
    {i \in DOMAIN part.replies :
        ~part.replies[i].is_tapback /\ format_message(part.replies[i], 4).kind = "Err"}

FailedApp(part, indent) == part.kind = "App" /\ format_app(part, indent).kind = "Err"

\* a balloon, a tapback or a reply of the message fails to format
HasFailedItem(message, indent) ==
    \E idx \in DOMAIN message.parts :
        \/ FailedApp(message.parts[idx], indent)
        \/ FailedTapbacks(message.parts[idx]) # {}
        \/ FailedReplies(message.parts[idx]) # {}

\* C23: when a balloon, a tapback or a sub-reply of a message fails to format,
\* the render of the message still returns a string, with its header lines and
\* the text of its plain parts; the failure is not returned.
C23_FailuresCaught ==
    (/\ rm.done
     /\ rm.message.fault = "none"
     /\ HasFailedItem(rm.message, Indent(rm.indent_size)))
    => /\ rm.ret = "Ok"
       /\ Len(Lines(rm.out)) >= 2
       /\ Lines(rm.out)[1] = <<rm.message.date>>
       /\ Lines(rm.out)[2] = <<rm.message.who>>
       /\ \A idx \in DOMAIN rm.message.parts :
            (rm.message.parts[idx].kind = "Text"
                /\ rm.message.parts[idx].status = "Original")
            => Occurrences(rm.out, rm.message.parts[idx].text) >= 1

\* a create_graph call that committed
GraphCommitted == nruns' = nruns + 1 /\ last'.op = "create_graph" /\ last'.ok

\* the edges a run adds for the message of row m, after the edges there were
EdgesOfRow(m) ==
    LET s == sent'[Len(sent) + m]
        i == in_thread'[Len(in_thread) + m]
        p == messaged_in'[Len(messaged_in) + m]
    IN /\ s.to = m /\ i.from = m
       /\ p.from = s.from /\ p.to = i.to
       /\ persons'[s.from].phone_number = stored[m].phone_number
       /\ threads'[i.to].unique_chat_id = stored[m].unique_chat_id

\* C24: a committed graph run adds to each edge table exactly one edge per
\* stored message, whatever edges exist already, and the edges of a message
\* join the message, the Person of its phone number and the Thread of its chat;
\* so k committed runs on a set of N messages leave at least k*N edges of each
\* kind (exactly k*N when there were none before).
C24_EdgesPerRun ==
    /\ [](/\ Len(sent) >= runsOnSet * Len(stored)
          /\ Len(messaged_in) = Len(sent)
          /\ Len(in_thread) = Len(sent))
    /\ [][GraphCommitted =>
            /\ Len(sent') = Len(sent) + Len(stored)
            /\ Len(messaged_in') = Len(messaged_in) + Len(stored)
            /\ Len(in_thread') = Len(in_thread) + Len(stored)
            /\ SubSeq(sent', 1, Len(sent)) = sent
            /\ SubSeq(messaged_in', 1, Len(messaged_in)) = messaged_in
            /\ SubSeq(in_thread', 1, Len(in_thread)) = in_thread
            /\ \A m \in 1..Len(stored) : EdgesOfRow(m)]_vars

\* two committed runs on the same two messages: four edges of each kind
C24_Witness ==
    /\ runsOnSet = 2 /\ Len(stored) = 2
    /\ Len(sent) = 4 /\ Len(messaged_in) = 4 /\ Len(in_thread) = 4
    /\ sent[1] = sent[3] /\ sent[2] = sent[4]

\* the positions of a token in a string, in order
Positions(string, token) ==
    LET at == {i \in 1..Len(string) : string[i] = token}
        RECURSIVE Sorted(_)
        Sorted(S) ==
            IF S = {} THEN <<>>
            ELSE LET least == CHOOSE i \in S : \A j \in S : i <= j
                 IN <<least>> \o Sorted(S \ {least})
    IN Sorted(at)

\* no reply of the message carries an expressive of its own
PlainReplies(message) ==
    \A idx \in DOMAIN message.parts :
        \A i \in DOMAIN message.parts[idx].replies :
            message.parts[idx].replies[i].expressive = <<>>

\* the part at idx has a tapback that is written, a reply that is written
ShowsTapbacks(part) ==
    \E i \in DOMAIN part.tapbacks : format_tapback(part.tapbacks[i]).text # <<>>

ShowsReplies(part) == \E i \in DOMAIN part.replies : ~part.replies[i].is_tapback

\* the first reply of a part that is written
FirstReply(part) ==
    part.replies[CHOOSE i \in DOMAIN part.replies :
                    /\ ~part.replies[i].is_tapback
                    /\ \A j \in 1..(i - 1) : part.replies[j].is_tapback]

\* C25: a message with an expressive and p parts has the label of the
\* expressive exactly p times at its own level, the idx-th one right before
\* the tapbacks of part idx and before its replies; a message without an
\* expressive has no label.
C25_ExpressivePerPart ==
    (rm.done /\ rm.ret = "Ok" /\ rm.indent_size = 0 /\ PlainReplies(rm.message))
    => LET label == "Sent with Slam"
           labels == Positions(rm.out, label)
           parts == rm.message.parts
       IN IF rm.message.expressive = <<>> THEN labels = <<>>
          ELSE /\ Len(labels) = Len(parts)
               /\ \A idx \in DOMAIN parts :
                    /\ rm.out[labels[idx] + 1] = NL
                    /\ ShowsTapbacks(parts[idx])
                        => rm.out[labels[idx] + 2] = "Tapbacks:"
                    /\ ShowsReplies(parts[idx])
                        => LET reply == Positions(rm.out, FirstReply(parts[idx]).date)
                           IN /\ reply # <<>>
                              /\ labels[idx] < reply[1]
                              /\ idx < Len(parts) => reply[1] < labels[idx + 1]
                              /\ ~ShowsTapbacks(parts[idx])
                                    => reply[1] = labels[idx] + 6

\* two parts, the first with a tapback: label, tapbacks, second part, label
C25_Witness ==
    /\ rm.done /\ rm.ret = "Ok" /\ rm.indent_size = 0
    /\ rm.message.expressive # <<>>
    /\ Len(rm.message.parts) = 2
    /\ ShowsTapbacks(rm.message.parts[1])
    /\ Len(Positions(rm.out, "Sent with Slam")) = 2
    /\ Len(Positions(rm.out, "Tapbacks:")) = 1
    /\ Positions(rm.out, "Sent with Slam")[1] < Positions(rm.out, "Tapbacks:")[1]
    /\ Positions(rm.out, "Tapbacks:")[1] < Positions(rm.out, "Sent with Slam")[2]

\* a part with a reply: the label comes before the reply
C25_WitnessReply ==
    /\ rm.done /\ rm.ret = "Ok" /\ rm.indent_size = 0
    /\ rm.message.expressive # <<>>
    /\ \E idx \in DOMAIN rm.message.parts : ShowsReplies(rm.message.parts[idx])
    /\ Len(Positions(rm.out, "Sent with Slam")) = Len(rm.message.parts)

\* the replies of a part that are written: those that are not tapbacks
Written(replies) == SelectSeq(replies, LAMBDA reply : ~reply.is_tapback)

\* the line of the string at which the header of a reply stands, indented by
\* depth levels of four spaces: its date, then its sender (0: no such line)
HeaderAt(string, reply, depth) ==
    LET lines == SplitLines(string, <<>>)
        at == {k \in 1..(Len(lines) - 1) :
                /\ lines[k] = Indent(4 * depth) \o <<reply.date>>
                /\ lines[k + 1] = Indent(4 * depth) \o <<reply.who>>}
    IN IF at = {} THEN 0 ELSE CHOOSE k \in at : \A j \in at : k <= j

\* the replies of a message are written in order, each one level deeper than
\* the message, and so are theirs
RECURSIVE Threaded(_, _, _)
Threaded(string, message, depth) ==
    \A idx \in DOMAIN message.parts :
        LET replies == Written(message.parts[idx].replies) IN
        /\ \A i \in DOMAIN replies :
            /\ HeaderAt(string, replies[i], depth + 1) # 0
            /\ i > 1 => HeaderAt(string, replies[i - 1], depth + 1)
                            < HeaderAt(string, replies[i], depth + 1)
            /\ Threaded(string, replies[i], depth + 1)
        /\ \A i \in DOMAIN message.parts[idx].replies :
            message.parts[idx].replies[i].is_tapback
            => Occurrences(string, message.parts[idx].replies[i].date) = 0

\* C26: the replies to a part are written in order, without those that are
\* tapbacks, each one indentation level (four spaces) deeper than the message
\* it replies to, also when that message is itself a reply.
C26_RepliesIndented ==
    (rm.done /\ rm.ret = "Ok" /\ rm.indent_size = 0) => Threaded(rm.out, rm.message, 0)

\* a call that reaches the formatter of a url, music, collaboration, app store,
\* placemark or generic app balloon
Formatted(call) ==
    /\ call.done
    /\ call.message.variant = "App"
    /\ call.message.balloon \in {"URL", "Application"}
    /\ call.message.payload.value /\ call.message.payload.plist
    /\ call.message.payload.decoded

\* the fields of the balloon that are present, in the order of its kind; the
\* name of a collaboration or an app is its app_name or else its bundle id,
\* the first line of a url balloon its url or else the text of the message
PresentFields(message) ==
    LET fields == BalloonFields(message.balloon, message.override)
        bubble == message.bubble
        RECURSIVE Listed(_)
        Listed(i) ==
            IF i > Len(fields) THEN <<>>
            ELSE LET f == fields[i]
                     shown ==
                        CASE f = "bundle_id" /\ bubble["app_name"] # <<>> -> <<>>
                          [] f = "url" /\ message.override = "Normal"
                                /\ bubble[f] = <<>> -> message.text
                          [] f = "app_name" /\ message.balloon = "Application"
                                /\ bubble[f] = <<>> -> message.bundle_id
                          [] OTHER -> bubble[f]
                 IN shown \o Listed(i + 1)
    IN Listed(1)

\* the words of a string: what is left without spaces, line breaks and the
\* mark of a header
Words(string) == SelectSeq(string, LAMBDA t : t \notin {SP, NL, " message:"})

\* C27: the string a formatter returns for a url, music, collaboration, app
\* store, placemark or generic app balloon does not end with a line break,
\* whichever fields are present, and holds the present fields in the order of
\* the balloon's kind.
C27_NoTrailingBreak ==
    (Formatted(am) /\ am.ret = "Ok")
    => /\ ~EndsWith(am.out, <<NL>>)
       /\ Words(am.out) = PresentFields(am.message)

\* C30: format_app returns a formatted string or an error value for every App
\* message and every state of its payload; it never reaches an unreachable!()
\* arm.
C30_NoUnreachable ==
    (am.done /\ am.message.variant = "App") => am.ret \in {"Ok", "Err"}

-----------------------------------------------------------------------------
\* Properties of the buffer of the export pipeline (checked under Spec)

\* C28 (as claimed): insert_batch is never called with an empty batch: every
\* batch passed to the sink holds at least one record, also when the source
\* has no messages and when its message count is a multiple of 1000.
C28_NeverEmptyBatch ==
    \A i \in 1..Len(InsertCalls) : Len(InsertCalls[i].batch) >= 1

\* a step in which flush_messages was called
Flushed ==
    /\ Len(calls') = Len(calls) + 1
    /\ calls'[Len(calls')].op = "insert_batch"

\* C29: the buffer is bounded and emptied by every flush: between the steps
\* of iter_messages (so whenever write_message has returned) the buffer holds
\* fewer than 1000 records, and after every call of flush_messages the buffer
\* is empty, whether insert_batch succeeded or failed.
C29_BufferEmptied ==
    /\ [](Len(messages) < FlushThreshold)
    /\ [][Flushed => messages' = <<>>]_vars

\* a full batch whose insert_batch failed, and the buffer empty after it
C29_Witness ==
    /\ pc = "failed"
    /\ error = "sink"
    /\ Len(InsertCalls) = 1
    /\ ~InsertCalls[1].ok
    /\ Len(InsertCalls[1].batch) = FlushThreshold
    /\ messages = <<>>

====
